---- MODULE Spec2Model ----
(***************************************************************************)
(* Model of the AI measurement service of Fashion_App_Django:              *)
(* BodyMeasurementService.process_image and the helpers it calls           *)
(* (src/ai_measurement_service/services/body_measurement.py).              *)
(*                                                                         *)
(* Numbers.  Scores, coordinates and visibilities are exact rationals      *)
(* [n, d] in lowest terms.  A distance is a square root, so a measurement  *)
(* value is kept as a signed square root of a rational, s * sqrt(q), or    *)
(* one of the non-finite float64 values inf / nan that numpy division by   *)
(* zero produces.  Rounding of float64 is not modelled.                    *)
(*                                                                         *)
(* The module also models the comparison of an AI measurement record with  *)
(* the customer's manual record,                                           *)
(* AIMeasurementIntegrationService.validate_ai_measurements                *)
(* (src/measurements/services.py), the request statistics of the service,  *)
(* update_stats, and its endpoints                                         *)
(* (src/ai_measurement_service/api/v1/endpoints), and the Measurement      *)
(* table with the operations that write it (src/measurements).             *)
(***************************************************************************)
EXTENDS Integers, Sequences, FiniteSets, TLC

VARIABLES
    phase, request, response, calls,          \* a process_image call
    score_phase, score_input, score_output,   \* the scoring helpers on their own
    val_phase, val_measurement, val_store,    \* a validate_ai_measurements call
    val_db_up, val_runs, val_result,
    processing_stats, st_tasks, st_running,   \* update_stats calls of concurrent requests
    api_request, api_response, api_trace,     \* the last request to an endpoint
    measurement_rows, last_operation          \* the Measurement table and the last operation on it

serviceVars == <<phase, request, response, calls>>

scoreVars == <<score_phase, score_input, score_output>>

validationVars == <<val_phase, val_measurement, val_store, val_db_up, val_runs, val_result>>

statsVars == <<processing_stats, st_tasks, st_running>>

apiVars == <<api_request, api_response, api_trace>>

recordVars == <<measurement_rows, last_operation>>

vars == <<phase, request, response, calls, score_phase, score_input, score_output,
          val_phase, val_measurement, val_store, val_db_up, val_runs, val_result,
          processing_stats, st_tasks, st_running,
          api_request, api_response, api_trace,
          measurement_rows, last_operation>>

(***************************************************************************)
(* Exact rational arithmetic                                               *)
(***************************************************************************)
Abs(i) == IF i < 0 THEN -i ELSE i

Sign(i) == IF i < 0 THEN -1 ELSE IF i = 0 THEN 0 ELSE 1

RECURSIVE GCD(_, _)
GCD(a, b) == IF b = 0 THEN a ELSE GCD(b, a % b)

\* the rational n/d (d # 0) in lowest terms with a positive denominator
Q(n, d) ==
    LET g == GCD(Abs(n), Abs(d))
        s == IF d < 0 THEN -1 ELSE 1
    IN  [n |-> (s * n) \div g, d |-> Abs(d) \div g]

QInt(i) == [n |-> i, d |-> 1]

QAdd(a, b) == Q(a.n * b.d + b.n * a.d, a.d * b.d)

QSub(a, b) == Q(a.n * b.d - b.n * a.d, a.d * b.d)

\* a and b are in lowest terms: cancelling across first keeps the
\* intermediate products small and leaves the product in lowest terms
QMul(a, b) ==
    LET g1 == GCD(Abs(a.n), b.d)
        g2 == GCD(Abs(b.n), a.d)
    IN  [n |-> (a.n \div g1) * (b.n \div g2), d |-> (a.d \div g2) * (b.d \div g1)]

\* a / b for b # 0
QDiv(a, b) == QMul(a, IF b.n < 0 THEN [n |-> 0 - b.d, d |-> 0 - b.n] ELSE [n |-> b.d, d |-> b.n])

QLt(a, b) == a.n * b.d < b.n * a.d

QLe(a, b) == a.n * b.d <= b.n * a.d

QMin(a, b) == IF QLe(a, b) THEN a ELSE b

QMax(a, b) == IF QLt(a, b) THEN b ELSE a

RECURSIVE QSum(_)
QSum(s) == IF s = <<>> THEN QInt(0) ELSE QAdd(Head(s), QSum(Tail(s)))

(***************************************************************************)
(* float64 values that come out of np.sqrt and of products and quotients   *)
(* of such: s * sqrt(q) with s the sign and q >= 0 rational, or inf, nan.  *)
(***************************************************************************)
Fin(s, q) == [k |-> "fin", s |-> IF q.n = 0 THEN 0 ELSE s, q |-> q]

Inf(s) == [k |-> "inf", s |-> s, q |-> QInt(0)]

NaN == [k |-> "nan", s |-> 0, q |-> QInt(0)]

\* a Python float with rational value r
FromQ(r) == Fin(Sign(r.n), QMul(r, r))

\* np.sqrt of a rational q >= 0
Sqrt(q) == Fin(1, q)

IsZero(a) == a.k = "fin" /\ a.s = 0

\* float64 multiplication: 0 * inf = nan
FMul(a, b) ==
    IF a.k = "nan" \/ b.k = "nan" THEN NaN
    ELSE IF a.k = "inf" \/ b.k = "inf"
         THEN IF IsZero(a) \/ IsZero(b) THEN NaN ELSE Inf(a.s * b.s)
         ELSE Fin(a.s * b.s, QMul(a.q, b.q))

\* numpy float64 true division: x / 0.0 is inf (nan for 0 / 0) with a
\* RuntimeWarning, never a ZeroDivisionError
FDiv(a, b) ==
    IF a.k = "nan" \/ b.k = "nan" THEN NaN
    ELSE IF b.k = "inf" THEN (IF a.k = "inf" THEN NaN ELSE Fin(0, QInt(0)))
    ELSE IF a.k = "inf" THEN Inf(a.s * (IF b.s = 0 THEN 1 ELSE b.s))
    ELSE IF IsZero(b) THEN (IF IsZero(a) THEN NaN ELSE Inf(a.s))
    ELSE Fin(a.s * b.s, QDiv(a.q, b.q))

(***************************************************************************)
(* Program constants                                                       *)
(***************************************************************************)
REFERENCE_HEIGHT_CM == 170

\* landmarks MediaPipe Pose reports for a detected body
SUPPORTED_LANDMARKS == 33

LANDMARK_INDICES ==
    [nose |-> 0,
     left_eye_inner |-> 1, left_eye |-> 2, left_eye_outer |-> 3,
     right_eye_inner |-> 4, right_eye |-> 5, right_eye_outer |-> 6,
     left_ear |-> 7, right_ear |-> 8,
     mouth_left |-> 9, mouth_right |-> 10,
     left_shoulder |-> 11, right_shoulder |-> 12,
     left_elbow |-> 13, right_elbow |-> 14,
     left_wrist |-> 15, right_wrist |-> 16,
     left_pinky |-> 17, right_pinky |-> 18,
     left_index |-> 19, right_index |-> 20,
     left_thumb |-> 21, right_thumb |-> 22,
     left_hip |-> 23, right_hip |-> 24,
     left_knee |-> 25, right_knee |-> 26,
     left_ankle |-> 27, right_ankle |-> 28,
     left_heel |-> 29, right_heel |-> 30,
     left_foot_index |-> 31, right_foot_index |-> 32]

key_landmark_indices == <<0, 11, 12, 23, 24, 25, 26, 27, 28>>

NoPoseRecommendations ==
    <<"Ensure the person is fully visible in the image",
      "Use good lighting conditions",
      "Make sure the person is standing straight">>

RecLighting == "Improve lighting conditions for better pose detection"
RecStraight == "Ensure the person is standing straight and facing the camera"
RecRetake == "Consider retaking the photo with the person more clearly visible"
RecVerify == "Some measurements have lower confidence - consider manual verification"
RecFullBody == "Limited measurements detected - ensure full body is visible in the image"
RecBackground == "For best results, use a photo with the person standing against a plain background"
RecClothing == "Ensure the person is wearing fitted clothing for more accurate measurements"

(***************************************************************************)
(* Optional values: a record with a `some' flag (Optional[...] / None)     *)
(***************************************************************************)
NoFloat == [some |-> FALSE, v |-> QInt(0)]

SomeFloat(r) == [some |-> TRUE, v |-> r]

\* Python truthiness of an Optional[float]: None and 0.0 are falsy
Truthy(opt) == opt.some /\ opt.v.n # 0

NoCalibration ==
    [some |-> FALSE,
     reference_object_pixels |-> Fin(0, QInt(0)),
     reference_object_real_size |-> QInt(0),
     pixel_to_cm_ratio |-> Fin(0, QInt(0)),
     calibration_confidence |-> QInt(0)]

\* faulty variant of Catalog: the hips entry is appended before the waist
\* estimate
Catalog_HipsBeforeWaist ==
    <<[name |-> "height", a |-> 0, b |-> 27, scaled |-> FALSE, factor |-> QInt(1),
       confidence |-> Q(9, 10), method |-> "nose_to_ankle_distance"],
      [name |-> "shoulder_width", a |-> 11, b |-> 12, scaled |-> FALSE, factor |-> QInt(1),
       confidence |-> Q(85, 100), method |-> "shoulder_to_shoulder_distance"],
      [name |-> "arm_length", a |-> 11, b |-> 15, scaled |-> FALSE, factor |-> QInt(1),
       confidence |-> Q(8, 10), method |-> "shoulder_to_wrist_distance"],
      [name |-> "hips", a |-> 23, b |-> 24, scaled |-> FALSE, factor |-> QInt(1),
       confidence |-> Q(8, 10), method |-> "hip_to_hip_distance"],
      [name |-> "waist", a |-> 23, b |-> 24, scaled |-> TRUE, factor |-> Q(75, 100),
       confidence |-> Q(6, 10), method |-> "hip_width_estimation"],
      [name |-> "inseam", a |-> 23, b |-> 27, scaled |-> FALSE, factor |-> QInt(1),
       confidence |-> Q(85, 100), method |-> "hip_to_ankle_distance"],
      [name |-> "torso_length", a |-> 11, b |-> 23, scaled |-> FALSE, factor |-> QInt(1),
       confidence |-> Q(8, 10), method |-> "shoulder_to_hip_distance"]>>

\* faulty variant of Catalog: the waist estimate is given confidence 0.7
Catalog_ConfidentWaist ==
    LET c == Catalog_HipsBeforeWaist
    IN  <<c[1], c[2], c[3], [c[5] EXCEPT !.confidence = Q(7, 10)], c[4], c[6], c[7]>>

(***************************************************************************)
(* The measurement catalog of _calculate_measurements, in code order.      *)
(* a, b: the landmark pair; scaled: the pixel distance is multiplied by    *)
(* factor before calibration (only the estimated waist).                   *)
(***************************************************************************)
Catalog ==
    <<[name |-> "height", a |-> LANDMARK_INDICES.nose, b |-> LANDMARK_INDICES.left_ankle,
       scaled |-> FALSE, factor |-> QInt(1),
       confidence |-> Q(9, 10), method |-> "nose_to_ankle_distance"],
      [name |-> "shoulder_width", a |-> LANDMARK_INDICES.left_shoulder, b |-> LANDMARK_INDICES.right_shoulder,
       scaled |-> FALSE, factor |-> QInt(1),
       confidence |-> Q(85, 100), method |-> "shoulder_to_shoulder_distance"],
      [name |-> "arm_length", a |-> LANDMARK_INDICES.left_shoulder, b |-> LANDMARK_INDICES.left_wrist,
       scaled |-> FALSE, factor |-> QInt(1),
       confidence |-> Q(8, 10), method |-> "shoulder_to_wrist_distance"],
      [name |-> "waist", a |-> LANDMARK_INDICES.left_hip, b |-> LANDMARK_INDICES.right_hip,
       scaled |-> TRUE, factor |-> Q(75, 100),
       confidence |-> Q(6, 10), method |-> "hip_width_estimation"],
      [name |-> "hips", a |-> LANDMARK_INDICES.left_hip, b |-> LANDMARK_INDICES.right_hip,
       scaled |-> FALSE, factor |-> QInt(1),
       confidence |-> Q(8, 10), method |-> "hip_to_hip_distance"],
      [name |-> "inseam", a |-> LANDMARK_INDICES.left_hip, b |-> LANDMARK_INDICES.left_ankle,
       scaled |-> FALSE, factor |-> QInt(1),
       confidence |-> Q(85, 100), method |-> "hip_to_ankle_distance"],
      [name |-> "torso_length", a |-> LANDMARK_INDICES.left_shoulder, b |-> LANDMARK_INDICES.left_hip,
       scaled |-> FALSE, factor |-> QInt(1),
       confidence |-> Q(8, 10), method |-> "shoulder_to_hip_distance"]>>

(***************************************************************************)
(* BodyMeasurementService                                                  *)
(***************************************************************************)
\* BodyLandmark list in pixel space: x * width, y * height, z and
\* visibility unchanged
_extract_landmarks(pose_landmarks, width, height) ==
    [i \in DOMAIN pose_landmarks.landmark |->
        [x |-> QMul(pose_landmarks.landmark[i].x, QInt(width)),
         y |-> QMul(pose_landmarks.landmark[i].y, QInt(height)),
         z |-> pose_landmarks.landmark[i].z,
         visibility |-> pose_landmarks.landmark[i].visibility]]

\* faulty variant of _calculate_distance: the depth difference is added
_calculate_distance_WithDepth(point1, point2) ==
    LET dx == QSub(point1.x, point2.x)
        dy == QSub(point1.y, point2.y)
        dz == QSub(point1.z, point2.z)
    IN  Sqrt(QAdd(QAdd(QMul(dx, dx), QMul(dy, dy)), QMul(dz, dz)))

_calculate_distance(point1, point2) ==
    LET dx == QSub(point1.x, point2.x)
        dy == QSub(point1.y, point2.y)
    IN  Sqrt(QAdd(QMul(dx, dx), QMul(dy, dy)))

\* lms[i] raises IndexError unless i < len(lms)
Indexable(lms, i) == i \in DOMAIN lms

\* faulty variant of Calibrate: the ratio is pixels per cm
Calibrate_InvertedRatio(lms, reference_height) ==
    LET head_to_ankle ==
            _calculate_distance(lms[LANDMARK_INDICES.nose], lms[LANDMARK_INDICES.left_ankle])
        real_size ==
            IF Truthy(reference_height) THEN reference_height.v
            ELSE QInt(REFERENCE_HEIGHT_CM)
    IN  [some |-> TRUE,
         reference_object_pixels |-> head_to_ankle,
         reference_object_real_size |-> real_size,
         pixel_to_cm_ratio |-> FDiv(head_to_ankle, FromQ(real_size)),
         calibration_confidence |->
            IF Truthy(reference_height) THEN Q(9, 10) ELSE Q(7, 10)]

\* the calibration branch at the head of the try block
Calibrate(lms, reference_height) ==
    LET head_to_ankle ==
            _calculate_distance(lms[LANDMARK_INDICES.nose], lms[LANDMARK_INDICES.left_ankle])
        real_size ==
            IF Truthy(reference_height) THEN reference_height.v
            ELSE QInt(REFERENCE_HEIGHT_CM)
    IN  [some |-> TRUE,
         reference_object_pixels |-> head_to_ankle,
         reference_object_real_size |-> real_size,
         pixel_to_cm_ratio |-> FDiv(FromQ(real_size), head_to_ankle),
         calibration_confidence |->
            IF Truthy(reference_height) THEN Q(9, 10) ELSE Q(7, 10)]

\* faulty variant of MeasurementOf: the waist factor is not applied
MeasurementOf_Unscaled(e, lms, pixel_to_cm_ratio) ==
    [name |-> e.name,
     value |-> FMul(_calculate_distance(lms[e.a], lms[e.b]), pixel_to_cm_ratio),
     confidence |-> e.confidence,
     method |-> e.method]

\* one MeasurementResult of the catalog
MeasurementOf(e, lms, pixel_to_cm_ratio) ==
    LET distance == _calculate_distance(lms[e.a], lms[e.b])
        pixels == IF e.scaled THEN FMul(distance, FromQ(e.factor)) ELSE distance
    IN  [name |-> e.name,
         value |-> FMul(pixels, pixel_to_cm_ratio),
         confidence |-> e.confidence,
         method |-> e.method]

\* the catalog entries from the k-th on, appended in order; the first
\* IndexError leaves the try block, keeping what was appended before it
RECURSIVE MeasureFrom(_, _, _, _)
MeasureFrom(k, lms, pixel_to_cm_ratio, measurements) ==
    IF k > Len(Catalog) THEN measurements
    ELSE IF Indexable(lms, Catalog[k].a) /\ Indexable(lms, Catalog[k].b)
         THEN MeasureFrom(k + 1, lms, pixel_to_cm_ratio,
                  Append(measurements, MeasurementOf(Catalog[k], lms, pixel_to_cm_ratio)))
         ELSE measurements

_calculate_measurements(lms, width, height, reference_height) ==
    IF Indexable(lms, LANDMARK_INDICES.nose) /\ Indexable(lms, LANDMARK_INDICES.left_ankle)
    THEN LET calibration == Calibrate(lms, reference_height)
         IN  [measurements |-> MeasureFrom(1, lms, calibration.pixel_to_cm_ratio, <<>>),
              calibration |-> calibration]
    ELSE [measurements |-> <<>>, calibration |-> NoCalibration]

\* faulty variant of _calculate_pose_confidence: the visibility of every
\* available landmark is averaged, not only that of the key landmarks
_calculate_pose_confidence_AllLandmarks(pose_landmarks) ==
    IF ~pose_landmarks.some THEN QInt(0)
    ELSE LET n == Cardinality(DOMAIN pose_landmarks.landmark)
             total_visibility ==
                 QSum([j \in 1..n |-> pose_landmarks.landmark[j - 1].visibility])
         IN  IF n = 0 THEN QInt(0) ELSE QDiv(total_visibility, QInt(n))

_calculate_pose_confidence(pose_landmarks) ==
    IF ~pose_landmarks.some THEN QInt(0)
    ELSE LET valid == SelectSeq(key_landmark_indices,
                          LAMBDA i : i \in DOMAIN pose_landmarks.landmark)
             total_visibility ==
                 QSum([j \in 1..Len(valid) |-> pose_landmarks.landmark[valid[j]].visibility])
         IN  IF Len(valid) = 0 THEN QInt(0)
             ELSE QDiv(total_visibility, QInt(Len(valid)))

\* faulty variant of _estimate_accuracy: the pose term has the measurement
\* term subtracted from it
_estimate_accuracy_Subtracted(measurements, pose_confidence) ==
    IF Len(measurements) = 0 THEN QInt(0)
    ELSE LET total_confidence ==
                 QSum([j \in 1..Len(measurements) |-> measurements[j].confidence])
             avg_measurement_confidence ==
                 QDiv(total_confidence, QInt(Len(measurements)))
             overall_accuracy ==
                 QSub(QMul(pose_confidence, Q(3, 10)),
                      QMul(avg_measurement_confidence, Q(7, 10)))
         IN  QMin(overall_accuracy, QInt(1))

\* faulty variant of _estimate_accuracy: the two weights are exchanged
_estimate_accuracy_WeightsSwapped(measurements, pose_confidence) ==
    IF Len(measurements) = 0 THEN QInt(0)
    ELSE LET total_confidence ==
                 QSum([j \in 1..Len(measurements) |-> measurements[j].confidence])
             avg_measurement_confidence ==
                 QDiv(total_confidence, QInt(Len(measurements)))
             overall_accuracy ==
                 QAdd(QMul(avg_measurement_confidence, Q(3, 10)),
                      QMul(pose_confidence, Q(7, 10)))
         IN  QMin(overall_accuracy, QInt(1))

_estimate_accuracy(measurements, pose_confidence) ==
    IF Len(measurements) = 0 THEN QInt(0)
    ELSE LET total_confidence ==
                 QSum([j \in 1..Len(measurements) |-> measurements[j].confidence])
             avg_measurement_confidence ==
                 QDiv(total_confidence, QInt(Len(measurements)))
             overall_accuracy ==
                 QAdd(QMul(avg_measurement_confidence, Q(7, 10)),
                      QMul(pose_confidence, Q(3, 10)))
         IN  QMin(overall_accuracy, QInt(1))

\* faulty variant of _generate_recommendations: the pose thresholds are
\* inclusive
_generate_recommendations_InclusivePose(measurements, pose_confidence) ==
    LET low_confidence_measurements ==
            SelectSeq(measurements, LAMBDA m : QLt(m.confidence, Q(7, 10)))
    IN  (IF QLe(pose_confidence, Q(7, 10)) THEN <<RecLighting, RecStraight>> ELSE <<>>)
        \o (IF QLe(pose_confidence, Q(5, 10)) THEN <<RecRetake>> ELSE <<>>)
        \o (IF Len(low_confidence_measurements) > 0 THEN <<RecVerify>> ELSE <<>>)
        \o (IF Len(measurements) < 5 THEN <<RecFullBody>> ELSE <<>>)
        \o <<RecBackground, RecClothing>>

\* faulty variant of _generate_recommendations: five measurements still
\* count as too few, and a confidence of exactly 0.7 counts as low
_generate_recommendations_InclusiveCounts(measurements, pose_confidence) ==
    LET low_confidence_measurements ==
            SelectSeq(measurements, LAMBDA m : QLe(m.confidence, Q(7, 10)))
    IN  (IF QLt(pose_confidence, Q(7, 10)) THEN <<RecLighting, RecStraight>> ELSE <<>>)
        \o (IF QLt(pose_confidence, Q(5, 10)) THEN <<RecRetake>> ELSE <<>>)
        \o (IF Len(low_confidence_measurements) > 0 THEN <<RecVerify>> ELSE <<>>)
        \o (IF Len(measurements) <= 5 THEN <<RecFullBody>> ELSE <<>>)
        \o <<RecBackground, RecClothing>>

\* faulty variant of _generate_recommendations: the general advice is put
\* in front of the measurement-based advice
_generate_recommendations_GeneralFirst(measurements, pose_confidence) ==
    LET low_confidence_measurements ==
            SelectSeq(measurements, LAMBDA m : QLt(m.confidence, Q(7, 10)))
    IN  (IF QLt(pose_confidence, Q(7, 10)) THEN <<RecLighting, RecStraight>> ELSE <<>>)
        \o (IF QLt(pose_confidence, Q(5, 10)) THEN <<RecRetake>> ELSE <<>>)
        \o <<RecBackground, RecClothing>>
        \o (IF Len(low_confidence_measurements) > 0 THEN <<RecVerify>> ELSE <<>>)
        \o (IF Len(measurements) < 5 THEN <<RecFullBody>> ELSE <<>>)

_generate_recommendations(measurements, pose_confidence) ==
    LET low_confidence_measurements ==
            SelectSeq(measurements, LAMBDA m : QLt(m.confidence, Q(7, 10)))
    IN  (IF QLt(pose_confidence, Q(7, 10)) THEN <<RecLighting, RecStraight>> ELSE <<>>)
        \o (IF QLt(pose_confidence, Q(5, 10)) THEN <<RecRetake>> ELSE <<>>)
        \o (IF Len(low_confidence_measurements) > 0 THEN <<RecVerify>> ELSE <<>>)
        \o (IF Len(measurements) < 5 THEN <<RecFullBody>> ELSE <<>>)
        \o <<RecBackground, RecClothing>>

NoMetadata == [landmarks_count |-> 0, calibration |-> NoCalibration]

\* faulty variant of ErrorResponse: the errors list is left empty
ErrorResponse_NoErrors(message) ==
    [success |-> FALSE,
     measurements |-> <<>>,
     metadata |-> NoMetadata,
     image_width |-> 0,
     image_height |-> 0,
     pose_detection_confidence |-> QInt(0),
     overall_accuracy |-> QInt(0),
     recommendations |-> <<>>,
     errors |-> <<>>,
     warnings |-> <<>>]

\* the response of the `except Exception' handler of process_image
ErrorResponse(message) ==
    [success |-> FALSE,
     measurements |-> <<>>,
     metadata |-> NoMetadata,
     image_width |-> 0,
     image_height |-> 0,
     pose_detection_confidence |-> QInt(0),
     overall_accuracy |-> QInt(0),
     recommendations |-> <<>>,
     errors |-> <<message>>,
     warnings |-> <<>>]

\* faulty variant of NoPoseResponse: the advice is left out
NoPoseResponse_NoAdvice(original_width, original_height) ==
    [success |-> FALSE,
     measurements |-> <<>>,
     metadata |-> NoMetadata,
     image_width |-> original_width,
     image_height |-> original_height,
     pose_detection_confidence |-> QInt(0),
     overall_accuracy |-> QInt(0),
     recommendations |-> <<>>,
     errors |-> <<"No pose detected in image">>,
     warnings |-> <<>>]

\* the response returned when results.pose_landmarks is None
NoPoseResponse(original_width, original_height) ==
    [success |-> FALSE,
     measurements |-> <<>>,
     metadata |-> NoMetadata,
     image_width |-> original_width,
     image_height |-> original_height,
     pose_detection_confidence |-> QInt(0),
     overall_accuracy |-> QInt(0),
     recommendations |-> NoPoseRecommendations,
     errors |-> <<"No pose detected in image">>,
     warnings |-> <<>>]

\* the response of a run that went through every step
SuccessResponse(image, reference_height) ==
    LET landmarks == _extract_landmarks(image.pose_landmarks, image.width, image.height)
        calc == _calculate_measurements(landmarks, image.width, image.height, reference_height)
        pose_confidence == _calculate_pose_confidence(image.pose_landmarks)
        overall_accuracy == _estimate_accuracy(calc.measurements, pose_confidence)
        recommendations == _generate_recommendations(calc.measurements, pose_confidence)
    IN  [success |-> TRUE,
         measurements |-> calc.measurements,
         metadata |-> [landmarks_count |-> Cardinality(DOMAIN landmarks),
                       calibration |-> calc.calibration],
         image_width |-> image.width,
         image_height |-> image.height,
         pose_detection_confidence |-> pose_confidence,
         overall_accuracy |-> overall_accuracy,
         recommendations |-> recommendations,
         errors |-> <<>>,
         warnings |-> <<>>]

\* the helper calls of a run in which the given helper raises
CallsUpTo(helper) ==
    CASE helper = "_extract_landmarks" ->
            <<"_decode_image", "pose.process", "_extract_landmarks">>
      [] helper = "_calculate_pose_confidence" ->
            <<"_decode_image", "pose.process", "_extract_landmarks",
              "_calculate_measurements", "_calculate_pose_confidence">>
      [] helper = "_estimate_accuracy" ->
            <<"_decode_image", "pose.process", "_extract_landmarks",
              "_calculate_measurements", "_calculate_pose_confidence",
              "_estimate_accuracy">>
      [] helper = "_generate_recommendations" ->
            <<"_decode_image", "pose.process", "_extract_landmarks",
              "_calculate_measurements", "_calculate_pose_confidence",
              "_estimate_accuracy", "_generate_recommendations">>

\* process_image: the response and the helper calls made on the way.
\* raises_in names the helper, if any, in which the run meets an exception
\* (_calculate_measurements handles its own and is not among them).
process_image(image_data, reference_height) ==
    IF ~image_data.decodable
    THEN [response |-> ErrorResponse("Processing error: Failed to decode image"),
          calls |-> <<"_decode_image">>]
    ELSE IF image_data.pose_raises
    THEN [response |-> ErrorResponse("Processing error: pose estimation failed"),
          calls |-> <<"_decode_image", "pose.process">>]
    ELSE IF ~image_data.pose_landmarks.some
    THEN [response |-> NoPoseResponse(image_data.width, image_data.height),
          calls |-> <<"_decode_image", "pose.process">>]
    ELSE IF image_data.raises_in # "none"
    THEN [response |-> ErrorResponse("Processing error: " \o image_data.raises_in),
          calls |-> CallsUpTo(image_data.raises_in)]
    ELSE [response |-> SuccessResponse(image_data, reference_height),
          calls |-> <<"_decode_image", "pose.process", "_extract_landmarks",
                      "_calculate_measurements", "_calculate_pose_confidence",
                      "_estimate_accuracy", "_generate_recommendations">>]

(***************************************************************************)
(* Inputs: what the image decoder and the pose estimator hand to           *)
(* process_image.  An image is undecodable, or decodes to width x height   *)
(* pixels on which pose estimation raises, finds no body, or returns a     *)
(* landmark list in normalized coordinates.                                *)
(***************************************************************************)
\* moved landmarks are placed on the points (gx / 4, gy / 4), gx, gy in
\* 0..GridMax
GridMax == 2

\* landmark lists longer than SUPPORTED_LANDMARKS by up to ExtraLandmarks
ExtraLandmarks == 1

\* landmarks the measurements read
MeasuredIndices ==
    {Catalog[k].a : k \in 1..Len(Catalog)} \cup {Catalog[k].b : k \in 1..Len(Catalog)}

\* a standing figure on a 400 x 400 image: nose (200, 40), shoulders
\* (150, 140) and (250, 140), left wrist (150, 260), hips (150, 220) and
\* (250, 220), left ankle (200, 380); every other landmark at the centre
StickXY(i) ==
    CASE i = LANDMARK_INDICES.nose -> <<Q(1, 2), Q(1, 10)>>
      [] i = LANDMARK_INDICES.left_shoulder -> <<Q(3, 8), Q(7, 20)>>
      [] i = LANDMARK_INDICES.right_shoulder -> <<Q(5, 8), Q(7, 20)>>
      [] i = LANDMARK_INDICES.left_wrist -> <<Q(3, 8), Q(13, 20)>>
      [] i = LANDMARK_INDICES.left_hip -> <<Q(3, 8), Q(11, 20)>>
      [] i = LANDMARK_INDICES.right_hip -> <<Q(5, 8), Q(11, 20)>>
      [] i = LANDMARK_INDICES.left_ankle -> <<Q(1, 2), Q(19, 20)>>
      [] OTHER -> <<Q(1, 2), Q(1, 2)>>

\* a degenerate detection: every landmark at the centre of the image
DotXY(i) == <<Q(1, 2), Q(1, 2)>>

Bases == {"stick", "dot"}

BaseXY(base, i) == IF base = "stick" THEN StickXY(i) ELSE DotXY(i)

BaseWidth(base) == IF base = "stick" THEN 400 ELSE 640

BaseHeight(base) == IF base = "stick" THEN 400 ELSE 480

GridPoints == {<<Q(gx, 4), Q(gy, 4)>> : gx \in 0..GridMax, gy \in 0..GridMax}

\* a figure is a base with at most one measured landmark moved
NoMove == [idx |-> -1, to |-> <<QInt(0), QInt(0)>>]

Moves == {NoMove} \cup {[idx |-> i, to |-> p] : i \in MeasuredIndices, p \in GridPoints}

VisProfiles == {"full", "at70", "at50", "hidden", "graded"}

VisOf(profile, i) ==
    CASE profile = "full" -> QInt(1)
      [] profile = "at70" -> Q(7, 10)
      [] profile = "at50" -> Q(5, 10)
      [] profile = "hidden" -> QInt(0)
      [] OTHER -> Q(i % 5, 4)

\* depth as the estimator reports it: differs from landmark to landmark
ZOf(i) == Q(0 - i, 10)

LandmarkList(base, move, n, profile) ==
    [i \in 0..(n - 1) |->
        LET xy == IF i = move.idx THEN move.to ELSE BaseXY(base, i)
        IN  [x |-> xy[1], y |-> xy[2], z |-> ZOf(i), visibility |-> VisOf(profile, i)]]

NoLandmarks == [some |-> FALSE, landmark |-> <<>>]

Counts ==
    {0, 13, 20, 28, SUPPORTED_LANDMARKS} \cup
    {SUPPORTED_LANDMARKS + e : e \in 1..ExtraLandmarks}

UndecodableImage ==
    [decodable |-> FALSE, width |-> 0, height |-> 0,
     pose_raises |-> FALSE, raises_in |-> "none", pose_landmarks |-> NoLandmarks]

PoseImage(base, move, n, profile) ==
    [decodable |-> TRUE, width |-> BaseWidth(base), height |-> BaseHeight(base),
     pose_raises |-> FALSE, raises_in |-> "none",
     pose_landmarks |-> [some |-> TRUE, landmark |-> LandmarkList(base, move, n, profile)]]

\* the helpers whose exception reaches the handler of process_image
RaisingHelpers ==
    {"_extract_landmarks", "_calculate_pose_confidence", "_estimate_accuracy",
     "_generate_recommendations"}

Images ==
    {UndecodableImage}
    \cup {[decodable |-> TRUE, width |-> BaseWidth(b), height |-> BaseHeight(b),
           pose_raises |-> r, raises_in |-> "none", pose_landmarks |-> NoLandmarks] :
              b \in Bases, r \in BOOLEAN}
    \cup {[PoseImage(b, NoMove, n, "full") EXCEPT !.raises_in = helper] :
             b \in Bases, n \in {0, SUPPORTED_LANDMARKS}, helper \in RaisingHelpers}
    \cup {PoseImage(b, m, SUPPORTED_LANDMARKS, v) :
             b \in Bases, m \in Moves, v \in {"full", "graded"}}
    \cup {PoseImage(b, NoMove, n, v) : b \in Bases, n \in Counts, v \in VisProfiles}

\* reference_height of the request: absent, 0.0, or a height in cm
ReferenceHeights ==
    {NoFloat, SomeFloat(QInt(0)), SomeFloat(QInt(100)), SomeFloat(QInt(340))}

(***************************************************************************)
(* The service as a state machine: a caller submits a request,             *)
(* process_image runs on it, the response is handed back.                  *)
(***************************************************************************)
NoRequest == [image_data |-> UndecodableImage, reference_height |-> NoFloat]

NoResponse == ErrorResponse("")

ServiceInit ==
    /\ phase = "idle"
    /\ request = NoRequest
    /\ response = NoResponse
    /\ calls = <<>>

Submit ==
    /\ phase = "idle"
    /\ \E image \in Images, reference_height \in ReferenceHeights :
          request' = [image_data |-> image, reference_height |-> reference_height]
    /\ phase' = "received"
    /\ UNCHANGED <<response, calls>>
    /\ UNCHANGED <<scoreVars, validationVars, statsVars, apiVars, recordVars>>

ProcessImage ==
    /\ phase = "received"
    /\ LET r == process_image(request.image_data, request.reference_height)
       IN  /\ response' = r.response
           /\ calls' = r.calls
    /\ phase' = "done"
    /\ UNCHANGED request
    /\ UNCHANGED <<scoreVars, validationVars, statsVars, apiVars, recordVars>>

Return ==
    /\ phase = "done"
    /\ phase' = "idle"
    /\ request' = NoRequest
    /\ response' = NoResponse
    /\ calls' = <<>>
    /\ UNCHANGED <<scoreVars, validationVars, statsVars, apiVars, recordVars>>

(***************************************************************************)
(* The scoring helpers as pure functions: _estimate_accuracy and           *)
(* _generate_recommendations applied to measurement lists and pose         *)
(* confidences that process_image itself never builds (short lists,        *)
(* arbitrary confidences).                                                 *)
(***************************************************************************)
\* longest measurement list handed to the helpers
MaxMeasurements == 5

Confidences == {Q(6, 10), Q(7, 10), QInt(1)}

PoseConfidences == {QInt(0), Q(49, 100), Q(5, 10), Q(69, 100), Q(7, 10), QInt(1), Q(3, 2)}

ScoreInit ==
    /\ score_phase = "build"
    /\ score_input = [measurements |-> <<>>, pose_confidence |-> QInt(0)]
    /\ score_output = [overall_accuracy |-> QInt(0), recommendations |-> <<>>]

AddMeasurement ==
    /\ score_phase = "build"
    /\ Len(score_input.measurements) < MaxMeasurements
    /\ \E c \in Confidences :
          score_input' =
              [score_input EXCEPT !.measurements =
                  Append(@, [name |-> "measurement", value |-> FromQ(QInt(1)),
                             confidence |-> c, method |-> "given"])]
    /\ UNCHANGED <<score_phase, score_output>>
    /\ UNCHANGED <<serviceVars, validationVars, statsVars, apiVars, recordVars>>

Score ==
    /\ score_phase = "build"
    /\ \E p \in PoseConfidences :
          /\ score_input' = [score_input EXCEPT !.pose_confidence = p]
          /\ score_output' =
                [overall_accuracy |-> _estimate_accuracy(score_input.measurements, p),
                 recommendations |-> _generate_recommendations(score_input.measurements, p)]
    /\ score_phase' = "scored"
    /\ UNCHANGED <<serviceVars, validationVars, statsVars, apiVars, recordVars>>

(***************************************************************************)
(* validate_ai_measurements (src/measurements/services.py)                 *)
(*                                                                         *)
(* A Measurement row is a record with the columns the method reads: id,   *)
(* customer, designer, measurement_type, is_active and the eight nullable  *)
(* float columns of field_names, and neck for the float columns the method *)
(* does not compare.  The table is a sequence of rows in the model's        *)
(* default ordering (newest update first).                                 *)
(***************************************************************************)
FloatColumns ==
    <<"bust", "waist", "hips", "chest", "shoulder_width", "arm_length", "inseam",
      "height", "neck">>

field_names_NoInseam ==
    <<"bust", "waist", "hips", "chest", "shoulder_width", "arm_length", "height">>

field_names ==
    <<"bust", "waist", "hips", "chest", "shoulder_width", "arm_length", "height", "inseam">>

NoRow == [some |-> FALSE]

SomeRow(r) == [some |-> TRUE, v |-> r]

\* Measurement.objects.filter(customer=..., measurement_type='manual',
\*     is_active=True).exclude(id=measurement.id).first()
FirstManual(store, measurement) ==
    LET matches ==
            SelectSeq(store, LAMBDA r : /\ r.customer = measurement.customer
                                        /\ r.measurement_type = "manual"
                                        /\ r.is_active
                                        /\ r.id # measurement.id)
    IN  IF Len(matches) = 0 THEN NoRow ELSE SomeRow(matches[1])

\* faulty variant of CompareField: the AI value is the denominator
CompareField_AiDenominator(ai_value, manual_value) ==
    LET difference == [n |-> Abs(QSub(ai_value, manual_value).n),
                       d |-> QSub(ai_value, manual_value).d]
        percentage_diff ==
            IF ai_value.n > 0 THEN QMul(QDiv(difference, ai_value), QInt(100))
            ELSE QInt(0)
    IN  [ai_value |-> ai_value,
         manual_value |-> manual_value,
         difference |-> difference,
         percentage_difference |-> percentage_diff,
         acceptable |-> QLe(percentage_diff, QInt(10))]

\* faulty variant of CompareField: a difference of exactly 10% is refused
CompareField_StrictTolerance(ai_value, manual_value) ==
    LET difference == [n |-> Abs(QSub(ai_value, manual_value).n),
                       d |-> QSub(ai_value, manual_value).d]
        percentage_diff ==
            IF manual_value.n > 0 THEN QMul(QDiv(difference, manual_value), QInt(100))
            ELSE QInt(0)
    IN  [ai_value |-> ai_value,
         manual_value |-> manual_value,
         difference |-> difference,
         percentage_difference |-> percentage_diff,
         acceptable |-> QLt(percentage_diff, QInt(10))]

\* the comparisons[field] entry of one field both rows hold
CompareField(ai_value, manual_value) ==
    LET difference == [n |-> Abs(QSub(ai_value, manual_value).n),
                       d |-> QSub(ai_value, manual_value).d]
        percentage_diff ==
            IF manual_value.n > 0 THEN QMul(QDiv(difference, manual_value), QInt(100))
            ELSE QInt(0)
    IN  [ai_value |-> ai_value,
         manual_value |-> manual_value,
         difference |-> difference,
         percentage_difference |-> percentage_diff,
         acceptable |-> QLe(percentage_diff, QInt(10))]

NoComparisons ==
    [comparisons |-> <<>>, discrepancies |-> <<>>,
     total_discrepancy |-> QInt(0), compared_fields |-> 0]

\* the loop over field_names, from its k-th field on
RECURSIVE CompareFrom(_, _, _, _)
CompareFrom(k, measurement, manual_measurement, acc) ==
    IF k > Len(field_names) THEN acc
    ELSE LET field == field_names[k]
             ai_value == measurement[field]
             manual_value == manual_measurement[field]
             entry == CompareField(ai_value.v, manual_value.v)
         IN  IF ai_value.some /\ manual_value.some
             THEN CompareFrom(k + 1, measurement, manual_measurement,
                      [comparisons |-> acc.comparisons @@ (field :> entry),
                       discrepancies |-> acc.discrepancies @@ (field :> entry.difference),
                       total_discrepancy |->
                           QAdd(acc.total_discrepancy, entry.percentage_difference),
                       compared_fields |-> acc.compared_fields + 1])
             ELSE CompareFrom(k + 1, measurement, manual_measurement, acc)

\* sum(1 for comp in comparisons.values() if comp["acceptable"])
AcceptableCount(comparisons) ==
    Cardinality({f \in DOMAIN comparisons : comparisons[f].acceptable})

\* max(discrepancies.values()) if discrepancies else 0
LargestDiscrepancy(discrepancies) ==
    IF DOMAIN discrepancies = {} THEN QInt(0)
    ELSE discrepancies[CHOOSE f \in DOMAIN discrepancies :
             \A g \in DOMAIN discrepancies : QLe(discrepancies[g], discrepancies[f])]

\* f"{x:.1f}%" of a non-negative x: the number of tenths it is rounded to
\* (ties to even, on the exact value)
FormatTenths(x) ==
    LET q == (x.n * 10) \div x.d
        r == (x.n * 10) % x.d
    IN  [tenths |-> IF 2 * r > x.d THEN q + 1
                    ELSE IF 2 * r = x.d THEN q + (q % 2)
                    ELSE q,
         suffix |-> "%"]

Unavailable(message) == [validation_available |-> FALSE, message |-> message]

ValidationError(text) ==
    [validation_available |-> FALSE, error |-> "Validation error: " \o text]

\* faulty variant of Summarise: the test for no compared field is missing,
\* so the average divides by zero and the handler reports the exception
Summarise_NoGuard(acc) ==
    IF acc.compared_fields = 0 THEN ValidationError("division by zero")
    ELSE LET average_discrepancy ==
                 QDiv(acc.total_discrepancy, QInt(acc.compared_fields))
             accuracy_score ==
                 QDiv(QMax(QInt(0), QSub(QInt(100), average_discrepancy)), QInt(100))
             acceptable_measurements == AcceptableCount(acc.comparisons)
             validation_passed ==
                 QLe(Q(7, 10), Q(acceptable_measurements, acc.compared_fields))
         IN  [validation_available |-> TRUE,
              validation_passed |-> validation_passed,
              accuracy_score |-> accuracy_score,
              average_discrepancy_percentage |-> average_discrepancy,
              compared_fields |-> acc.compared_fields,
              acceptable_measurements |-> acceptable_measurements,
              comparisons |-> acc.comparisons,
              summary |->
                  [total_fields_compared |-> acc.compared_fields,
                   fields_within_tolerance |-> acceptable_measurements,
                   largest_discrepancy |-> LargestDiscrepancy(acc.discrepancies),
                   average_discrepancy |-> FormatTenths(average_discrepancy)]]

\* faulty variant of Summarise: the accuracy score is not cut off at 0
Summarise_Unclamped(acc) ==
    IF acc.compared_fields = 0 THEN Unavailable("No comparable measurements found")
    ELSE LET average_discrepancy ==
                 QDiv(acc.total_discrepancy, QInt(acc.compared_fields))
             accuracy_score ==
                 QDiv(QSub(QInt(100), average_discrepancy), QInt(100))
             acceptable_measurements == AcceptableCount(acc.comparisons)
             validation_passed ==
                 QLe(Q(7, 10), Q(acceptable_measurements, acc.compared_fields))
         IN  [validation_available |-> TRUE,
              validation_passed |-> validation_passed,
              accuracy_score |-> accuracy_score,
              average_discrepancy_percentage |-> average_discrepancy,
              compared_fields |-> acc.compared_fields,
              acceptable_measurements |-> acceptable_measurements,
              comparisons |-> acc.comparisons,
              summary |->
                  [total_fields_compared |-> acc.compared_fields,
                   fields_within_tolerance |-> acceptable_measurements,
                   largest_discrepancy |-> LargestDiscrepancy(acc.discrepancies),
                   average_discrepancy |-> FormatTenths(average_discrepancy)]]

\* faulty variant of Summarise: the pass threshold is 0.66
Summarise_LowThreshold(acc) ==
    IF acc.compared_fields = 0 THEN Unavailable("No comparable measurements found")
    ELSE LET average_discrepancy ==
                 QDiv(acc.total_discrepancy, QInt(acc.compared_fields))
             accuracy_score ==
                 QDiv(QMax(QInt(0), QSub(QInt(100), average_discrepancy)), QInt(100))
             acceptable_measurements == AcceptableCount(acc.comparisons)
             validation_passed ==
                 QLe(Q(66, 100), Q(acceptable_measurements, acc.compared_fields))
         IN  [validation_available |-> TRUE,
              validation_passed |-> validation_passed,
              accuracy_score |-> accuracy_score,
              average_discrepancy_percentage |-> average_discrepancy,
              compared_fields |-> acc.compared_fields,
              acceptable_measurements |-> acceptable_measurements,
              comparisons |-> acc.comparisons,
              summary |->
                  [total_fields_compared |-> acc.compared_fields,
                   fields_within_tolerance |-> acceptable_measurements,
                   largest_discrepancy |-> LargestDiscrepancy(acc.discrepancies),
                   average_discrepancy |-> FormatTenths(average_discrepancy)]]

\* what follows the loop: the result for the totals it gathered
Summarise(acc) ==
    IF acc.compared_fields = 0 THEN Unavailable("No comparable measurements found")
    ELSE LET average_discrepancy ==
                 QDiv(acc.total_discrepancy, QInt(acc.compared_fields))
             accuracy_score ==
                 QDiv(QMax(QInt(0), QSub(QInt(100), average_discrepancy)), QInt(100))
             acceptable_measurements == AcceptableCount(acc.comparisons)
             validation_passed ==
                 QLe(Q(7, 10), Q(acceptable_measurements, acc.compared_fields))
         IN  [validation_available |-> TRUE,
              validation_passed |-> validation_passed,
              accuracy_score |-> accuracy_score,
              average_discrepancy_percentage |-> average_discrepancy,
              compared_fields |-> acc.compared_fields,
              acceptable_measurements |-> acceptable_measurements,
              comparisons |-> acc.comparisons,
              summary |->
                  [total_fields_compared |-> acc.compared_fields,
                   fields_within_tolerance |-> acceptable_measurements,
                   largest_discrepancy |-> LargestDiscrepancy(acc.discrepancies),
                   average_discrepancy |-> FormatTenths(average_discrepancy)]]

\* query_raises: the database query fails (the only statement of the try
\* block that can raise for rows of floats)
validate_ai_measurements(measurement, store, query_raises) ==
    IF query_raises THEN ValidationError("database error")
    ELSE LET manual_measurement == FirstManual(store, measurement)
         IN  IF ~manual_measurement.some
             THEN Unavailable("No manual measurements available for comparison")
             ELSE Summarise(CompareFrom(1, measurement, manual_measurement.v, NoComparisons))

(***************************************************************************)
(* Inputs of validate_ai_measurements.  The two rows are filled column by  *)
(* column in FloatColumns order; each column takes one of FieldCases, the  *)
(* columns not yet filled are NULL in both rows, and the cases may change  *)
(* at most MaxRuns - 1 times along the columns.                            *)
(***************************************************************************)
MaxRuns == 2

FieldCases ==
    { [ai |-> NoFloat, manual |-> NoFloat],
      [ai |-> SomeFloat(QInt(95)), manual |-> NoFloat],
      [ai |-> NoFloat, manual |-> SomeFloat(QInt(90))],
      [ai |-> SomeFloat(QInt(95)), manual |-> SomeFloat(QInt(90))],
      [ai |-> SomeFloat(QInt(99)), manual |-> SomeFloat(QInt(90))],
      [ai |-> SomeFloat(QInt(100)), manual |-> SomeFloat(QInt(90))],
      [ai |-> SomeFloat(QInt(50)), manual |-> SomeFloat(QInt(0))],
      [ai |-> SomeFloat(QInt(250)), manual |-> SomeFloat(QInt(100))] }

Row(id, customer, designer, measurement_type, is_active) ==
    [id |-> id, customer |-> customer, designer |-> designer,
     measurement_type |-> measurement_type, is_active |-> is_active,
     bust |-> NoFloat, waist |-> NoFloat, hips |-> NoFloat, chest |-> NoFloat,
     shoulder_width |-> NoFloat, arm_length |-> NoFloat, inseam |-> NoFloat,
     height |-> NoFloat, neck |-> NoFloat]

\* the row with every measurement column set to the value
Filled(row, value) ==
    [c \in DOMAIN row |->
        IF \E k \in 1..Len(FloatColumns) : FloatColumns[k] = c THEN SomeFloat(value)
        ELSE row[c]]

\* the arrangements of the table around the AI row and the manual row
StoreShapes == {"found", "empty", "no_match", "after_others", "newest_of_two"}

Arrange(shape, measurement, manual) ==
    CASE shape = "found" -> <<measurement, manual>>
      [] shape = "empty" -> <<>>
      [] shape = "no_match" ->
            <<[measurement EXCEPT !.measurement_type = "manual"],
              [manual EXCEPT !.is_active = FALSE],
              [manual EXCEPT !.id = 3, !.customer = "customer2"],
              [manual EXCEPT !.id = 4, !.measurement_type = "hybrid"],
              [manual EXCEPT !.id = 5, !.measurement_type = "ai_generated"]>>
      [] shape = "after_others" ->
            <<measurement,
              Filled(Row(3, "customer2", "designer1", "manual", TRUE), QInt(60)),
              Filled(Row(4, "customer1", "designer2", "manual", FALSE), QInt(60)),
              manual>>
      [] shape = "newest_of_two" ->
            <<manual,
              Filled(Row(3, "customer1", "designer2", "manual", TRUE), QInt(60)),
              measurement>>

ValidateInit ==
    /\ val_phase = "build"
    /\ val_measurement = Row(1, "customer1", "designer1", "ai_generated", TRUE)
    /\ val_store = <<Row(2, "customer1", "designer1", "manual", TRUE)>>
    /\ val_db_up = TRUE
    /\ val_runs = [filled |-> 0, runs |-> 0, last |-> [ai |-> NoFloat, manual |-> NoFloat]]
    /\ val_result = Unavailable("")

\* the next column of the two rows is given its values
SetField ==
    /\ val_phase = "build"
    /\ val_runs.filled < Len(FloatColumns)
    /\ \E case \in FieldCases :
          LET field == FloatColumns[val_runs.filled + 1]
              runs == IF val_runs.filled > 0 /\ case = val_runs.last THEN val_runs.runs
                      ELSE val_runs.runs + 1
          IN  /\ runs <= MaxRuns
              /\ val_measurement' = [val_measurement EXCEPT ![field] = case.ai]
              /\ val_store' = <<[val_store[1] EXCEPT ![field] = case.manual]>>
              /\ val_runs' = [filled |-> val_runs.filled + 1, runs |-> runs, last |-> case]
    /\ UNCHANGED <<val_phase, val_db_up, val_result>>
    /\ UNCHANGED <<serviceVars, scoreVars, statsVars, apiVars, recordVars>>

\* validate_ai_measurements(measurement, ai_result) on some arrangement of
\* the table; arrangements other than the plain one are tried on rows whose
\* filled columns all took the same case
Validate ==
    /\ val_phase = "build"
    /\ \E shape \in StoreShapes, query_raises \in BOOLEAN :
          /\ (shape # "found" \/ query_raises) => val_runs.runs <= 1
          /\ val_store' = Arrange(shape, val_measurement, val_store[1])
          /\ val_db_up' = ~query_raises
          /\ val_result' = validate_ai_measurements(val_measurement, val_store', query_raises)
    /\ val_phase' = "validated"
    /\ UNCHANGED <<val_measurement, val_runs>>
    /\ UNCHANGED <<serviceVars, scoreVars, statsVars, apiVars, recordVars>>

(***************************************************************************)
(* update_stats (api/v1/endpoints/health.py) under concurrent requests.    *)
(*                                                                         *)
(* Every caller of update_stats is an `async def' handler, so the handlers *)
(* of one process are coroutines of one event loop: a coroutine keeps the  *)
(* loop from the moment it is started or resumed until it awaits or        *)
(* returns.  update_stats is taken statement by statement, each `+= 1' as  *)
(* a load and a store.  uptime and last_request_time are left out.         *)
(***************************************************************************)
\* number of requests in flight
MaxTasks == 2

ElapsedTimes == {QInt(1), QInt(3)}

NoTask == [pc |-> "idle", success |-> FALSE, processing_time |-> QInt(0), loaded |-> 0]

\* faulty variant of Yields: a handler can lose the processor after any
\* statement, as handlers run by a pool of threads do
Yields_AnyStatement(pc) == TRUE

\* the places where a handler gives the event loop back: `await file.read()'
\* of extract_measurements_from_file, and its return
Yields(pc) == pc \in {"await_read", "done"}

\* task t may take its next step
Runnable(t) == st_running \in {0, t}

\* the task goes to pc, keeping or giving back the loop
Goes(t, pc) ==
    /\ st_tasks' = [st_tasks EXCEPT ![t].pc = pc]
    /\ st_running' = IF Yields(pc) THEN 0 ELSE t

StatsInit ==
    /\ processing_stats =
          [total_requests |-> 0, successful_requests |-> 0, failed_requests |-> 0,
           average_processing_time |-> QInt(0)]
    /\ st_tasks = [t \in 1..MaxTasks |-> NoTask]
    /\ st_running = 0

\* a request arrives at /extract or /extract-file and its handler runs up
\* to its update_stats call, or up to the await of the file contents; a
\* rejected request (413, 400) reports success = False
Arrive ==
    \E t \in 1..MaxTasks :
        /\ st_tasks[t].pc = "idle"
        /\ Runnable(t)
        /\ \E endpoint \in {"extract", "extract_file"}, rejected \in BOOLEAN,
              success \in BOOLEAN, processing_time \in ElapsedTimes :
              LET pc == IF endpoint = "extract_file" /\ ~rejected THEN "await_read"
                        ELSE "load_total"
              IN  /\ rejected => ~success
                  /\ st_tasks' = [st_tasks EXCEPT ![t] =
                        [pc |-> pc, success |-> success,
                         processing_time |-> processing_time, loaded |-> 0]]
                  /\ st_running' = IF Yields(pc) THEN 0 ELSE t
        /\ UNCHANGED processing_stats
        /\ UNCHANGED <<serviceVars, scoreVars, validationVars, apiVars, recordVars>>

\* the file contents are there: the handler goes on to process_image and
\* to its update_stats call
ResumeRead ==
    \E t \in 1..MaxTasks :
        /\ st_tasks[t].pc = "await_read"
        /\ Runnable(t)
        /\ Goes(t, "load_total")
        /\ UNCHANGED processing_stats
        /\ UNCHANGED <<serviceVars, scoreVars, validationVars, apiVars, recordVars>>

\* processing_stats.total_requests += 1, the load
LoadTotal ==
    \E t \in 1..MaxTasks :
        /\ st_tasks[t].pc = "load_total"
        /\ Runnable(t)
        /\ st_tasks' = [st_tasks EXCEPT ![t].pc = "store_total",
                                        ![t].loaded = processing_stats.total_requests]
        /\ st_running' = IF Yields("store_total") THEN 0 ELSE t
        /\ UNCHANGED processing_stats
        /\ UNCHANGED <<serviceVars, scoreVars, validationVars, apiVars, recordVars>>

\* processing_stats.total_requests += 1, the store
StoreTotal ==
    \E t \in 1..MaxTasks :
        /\ st_tasks[t].pc = "store_total"
        /\ Runnable(t)
        /\ processing_stats' =
              [processing_stats EXCEPT !.total_requests = st_tasks[t].loaded + 1]
        /\ Goes(t, "load_count")
        /\ UNCHANGED <<serviceVars, scoreVars, validationVars, apiVars, recordVars>>

\* successful_requests += 1 or failed_requests += 1, the load
LoadCount ==
    \E t \in 1..MaxTasks :
        /\ st_tasks[t].pc = "load_count"
        /\ Runnable(t)
        /\ st_tasks' = [st_tasks EXCEPT ![t].pc = "store_count",
                           ![t].loaded = IF st_tasks[t].success
                                         THEN processing_stats.successful_requests
                                         ELSE processing_stats.failed_requests]
        /\ st_running' = IF Yields("store_count") THEN 0 ELSE t
        /\ UNCHANGED processing_stats
        /\ UNCHANGED <<serviceVars, scoreVars, validationVars, apiVars, recordVars>>

\* successful_requests += 1 or failed_requests += 1, the store
StoreCount ==
    \E t \in 1..MaxTasks :
        /\ st_tasks[t].pc = "store_count"
        /\ Runnable(t)
        /\ processing_stats' =
              IF st_tasks[t].success
              THEN [processing_stats EXCEPT !.successful_requests = st_tasks[t].loaded + 1]
              ELSE [processing_stats EXCEPT !.failed_requests = st_tasks[t].loaded + 1]
        /\ Goes(t, "average")
        /\ UNCHANGED <<serviceVars, scoreVars, validationVars, apiVars, recordVars>>

\* the running average is brought up to date and update_stats returns
UpdateAverage ==
    \E t \in 1..MaxTasks :
        /\ st_tasks[t].pc = "average"
        /\ Runnable(t)
        /\ processing_stats' =
              IF processing_stats.total_requests > 0
              THEN LET current_total_time ==
                           QMul(processing_stats.average_processing_time,
                                QInt(processing_stats.total_requests - 1))
                       new_total_time ==
                           QAdd(current_total_time, st_tasks[t].processing_time)
                   IN  [processing_stats EXCEPT !.average_processing_time =
                           QDiv(new_total_time, QInt(processing_stats.total_requests))]
              ELSE processing_stats
        /\ Goes(t, "done")
        /\ UNCHANGED <<serviceVars, scoreVars, validationVars, apiVars, recordVars>>

(***************************************************************************)
(* The endpoints of api/v1/endpoints/measurements.py, one request at a     *)
(* time.  A request is what the handler is given, i.e. it has passed the   *)
(* validators of its schema: the image type of an ImageUploadRequest is    *)
(* one of the allowed types and its image data is base64.                  *)
(* An item is an image request together with `unexpected', which tells     *)
(* that the processing step of the handler meets an exception it does not  *)
(* expect (process_image raising, the upload failing to be read).          *)
(* api_trace keeps, for the last request, the update_stats calls made,     *)
(* the items handed to process_image and the statistics before it; the     *)
(* requests served before it show in the statistics it finds.              *)
(***************************************************************************)
MAX_FILE_SIZE == 10 * 1024 * 1024

ALLOWED_IMAGE_TYPES == {"image/jpeg", "image/png", "image/jpg"}

MAX_BATCH_SIZE == 10

\* update_stats as a whole
update_stats(stats, success, processing_time) ==
    LET total_requests == stats.total_requests + 1
        current_total_time ==
            QMul(stats.average_processing_time, QInt(total_requests - 1))
        new_total_time == QAdd(current_total_time, processing_time)
    IN  [total_requests |-> total_requests,
         successful_requests |-> stats.successful_requests + (IF success THEN 1 ELSE 0),
         failed_requests |-> stats.failed_requests + (IF success THEN 0 ELSE 1),
         average_processing_time |->
             IF total_requests > 0 THEN QDiv(new_total_time, QInt(total_requests))
             ELSE stats.average_processing_time]

\* the statistics after the given calls of update_stats, in order
RECURSIVE AfterUpdates(_, _)
AfterUpdates(stats, updates) ==
    IF updates = <<>> THEN stats
    ELSE AfterUpdates(update_stats(stats, Head(updates).success,
                                   Head(updates).processing_time),
                      Tail(updates))

Item(image, unexpected) ==
    [image_data |-> image, reference_height |-> NoFloat, unexpected |-> unexpected]

\* the items requests are made of: an image that cannot be decoded, one
\* without a pose, a standing figure, and the latter with an unexpected
\* exception in its processing
StandingFigure == PoseImage("stick", NoMove, SUPPORTED_LANDMARKS, "full")

BlankImage ==
    [decodable |-> TRUE, width |-> BaseWidth("dot"), height |-> BaseHeight("dot"),
     pose_raises |-> FALSE, raises_in |-> "none", pose_landmarks |-> NoLandmarks]

ApiItems ==
    {Item(UndecodableImage, FALSE), Item(BlankImage, FALSE),
     Item(StandingFigure, FALSE), Item(StandingFigure, TRUE)}

\* measurement_service.process_image on each item
Processed ==
    [item \in ApiItems |-> process_image(item.image_data, item.reference_height).response]

NoBody == ErrorResponse("")

Rejected(status, detail, updates, processed) ==
    [status |-> status, detail |-> detail, body |-> NoBody, results |-> <<>>,
     updates |-> updates, processed |-> processed]

Update(success, processing_time) ==
    [success |-> success, processing_time |-> processing_time]

\* faulty variant of extract_measurements: a request refused with 413 or
\* 400 is not counted
extract_measurements_RejectsUncounted(item, length, image_type, elapsed) ==
    IF 3 * length > 4 * MAX_FILE_SIZE
    THEN Rejected(413, "File too large", <<>>, <<>>)
    ELSE IF image_type \notin ALLOWED_IMAGE_TYPES
    THEN Rejected(400, "Unsupported image type", <<>>, <<>>)
    ELSE IF item.unexpected
    THEN Rejected(500, "Internal server error during measurement extraction",
                  <<Update(FALSE, elapsed)>>, <<item>>)
    ELSE [status |-> 200, detail |-> "", body |-> Processed[item], results |-> <<>>,
          updates |-> <<Update(Processed[item].success, elapsed)>>,
          processed |-> <<item>>]

\* POST /extract: length is len(request.image_data), so the estimated size
\* length * 0.75 exceeds MAX_FILE_SIZE iff 3 * length > 4 * MAX_FILE_SIZE
extract_measurements(item, length, image_type, elapsed) ==
    IF 3 * length > 4 * MAX_FILE_SIZE
    THEN Rejected(413, "File too large", <<Update(FALSE, elapsed)>>, <<>>)
    ELSE IF image_type \notin ALLOWED_IMAGE_TYPES
    THEN Rejected(400, "Unsupported image type", <<Update(FALSE, elapsed)>>, <<>>)
    ELSE IF item.unexpected
    THEN Rejected(500, "Internal server error during measurement extraction",
                  <<Update(FALSE, elapsed)>>, <<item>>)
    ELSE [status |-> 200, detail |-> "", body |-> Processed[item], results |-> <<>>,
          updates |-> <<Update(Processed[item].success, elapsed)>>,
          processed |-> <<item>>]

\* POST /extract-file: size is file.size (absent for an upload of unknown
\* size), content_type the type the client declares
extract_measurements_from_file(item, size, content_type, elapsed) ==
    IF size.some /\ size.v > MAX_FILE_SIZE
    THEN Rejected(413, "File too large", <<Update(FALSE, elapsed)>>, <<>>)
    ELSE IF content_type \notin ALLOWED_IMAGE_TYPES
    THEN Rejected(400, "Unsupported image type", <<Update(FALSE, elapsed)>>, <<>>)
    ELSE IF item.unexpected
    THEN Rejected(500, "Error processing uploaded file",
                  <<Update(FALSE, elapsed)>>, <<>>)
    ELSE [status |-> 200, detail |-> "", body |-> Processed[item], results |-> <<>>,
          updates |-> <<Update(Processed[item].success, elapsed)>>,
          processed |-> <<item>>]

\* the result appended for one image of a batch, with its processing_time
BatchResult(item, elapsed) ==
    IF item.unexpected
    THEN [result |-> ErrorResponse("Processing error: unexpected"),
          processing_time |-> QInt(0)]
    ELSE [result |-> Processed[item], processing_time |-> elapsed]

\* faulty variant of BatchResults: the loop ends at the first image that
\* raises
RECURSIVE BatchResults_StopsAtException(_, _)
BatchResults_StopsAtException(images, elapsed) ==
    IF images = <<>> THEN <<>>
    ELSE IF Head(images).unexpected THEN <<BatchResult(Head(images), elapsed)>>
    ELSE <<BatchResult(Head(images), elapsed)>>
             \o BatchResults_StopsAtException(Tail(images), elapsed)

\* the loop over request.images
RECURSIVE BatchResults(_, _)
BatchResults(images, elapsed) ==
    IF images = <<>> THEN <<>>
    ELSE <<BatchResult(Head(images), elapsed)>> \o BatchResults(Tail(images), elapsed)

\* faulty variant of BatchAdmitted: a batch of MAX_BATCH_SIZE is refused
BatchAdmitted_Exclusive(images) == Len(images) < MAX_BATCH_SIZE

\* the batch passes the size test
BatchAdmitted(images) == ~(Len(images) > MAX_BATCH_SIZE)

\* POST /batch
batch_extract_measurements(images, elapsed) ==
    IF ~BatchAdmitted(images)
    THEN Rejected(400, "Batch size too large. Maximum 10 images per batch.", <<>>, <<>>)
    ELSE LET results == BatchResults(images, elapsed)
             successes == SelectSeq(results, LAMBDA r : r.result.success)
             total_processing_time ==
                 QSum([k \in 1..Len(results) |->
                          IF images[k].unexpected THEN QInt(0)
                          ELSE results[k].processing_time])
         IN  [status |-> 200, detail |-> "",
              body |-> NoBody,
              results |-> [k \in 1..Len(results) |-> results[k].result],
              total_images |-> Len(images),
              successful_extractions |-> Len(successes),
              failed_extractions |-> Len(results) - Len(successes),
              average_processing_time |->
                  IF Len(images) > 0 THEN QDiv(total_processing_time, QInt(Len(images)))
                  ELSE QInt(0),
              updates |-> [k \in 1..Len(results) |->
                              Update(results[k].result.success, results[k].processing_time)],
              processed |-> SelectSeq(images, LAMBDA i : TRUE)]

(***************************************************************************)
(* Requests.  A batch holds one kind of item throughout, except possibly   *)
(* at its first or last place.                                             *)
(***************************************************************************)
\* update_stats calls of earlier requests that a request may find made
MaxEarlier == 1

ImageLengths == {1000, 13981013, 13981014}

FileSizes ==
    {[some |-> FALSE, v |-> 0], [some |-> TRUE, v |-> 1000],
     [some |-> TRUE, v |-> MAX_FILE_SIZE], [some |-> TRUE, v |-> MAX_FILE_SIZE + 1]}

ContentTypes == {"image/jpeg", "image/png", "image/gif"}

BatchSizes == 0..(MAX_BATCH_SIZE + 1)

BatchOf(n, usual, other, place) ==
    [k \in 1..n |-> IF k = place THEN other ELSE usual]

Batches ==
    UNION {{BatchOf(n, usual, other, place) :
               usual \in ApiItems, other \in ApiItems, place \in {1, n}} :
           n \in BatchSizes}

NoApiRequest == [endpoint |-> "none"]

ApiInit ==
    /\ api_request = NoApiRequest
    /\ api_response = Rejected(0, "", <<>>, <<>>)
    /\ api_trace = [before |-> processing_stats]

\* an earlier request made its update_stats call
EarlierUpdate ==
    /\ api_request = NoApiRequest
    /\ processing_stats.total_requests < MaxEarlier
    /\ \E success \in BOOLEAN, processing_time \in ElapsedTimes :
          processing_stats' = update_stats(processing_stats, success, processing_time)
    /\ UNCHANGED <<st_tasks, st_running, apiVars>>
    /\ UNCHANGED <<serviceVars, scoreVars, validationVars, recordVars>>

\* the handler's outcome becomes the response, and its update_stats calls
\* are made
Serve(req, outcome) ==
    /\ api_request' = req
    /\ api_response' = outcome
    /\ api_trace' = [before |-> processing_stats]
    /\ processing_stats' = AfterUpdates(processing_stats, outcome.updates)

Extract ==
    /\ api_request = NoApiRequest
    /\ \E item \in ApiItems, length \in ImageLengths,
          image_type \in ALLOWED_IMAGE_TYPES, elapsed \in ElapsedTimes :
          Serve([endpoint |-> "extract", item |-> item, length |-> length,
                 image_type |-> image_type, elapsed |-> elapsed],
                extract_measurements(item, length, image_type, elapsed))
    /\ UNCHANGED <<st_tasks, st_running>>
    /\ UNCHANGED <<serviceVars, scoreVars, validationVars, recordVars>>

ExtractFile ==
    /\ api_request = NoApiRequest
    /\ \E item \in ApiItems, size \in FileSizes,
          content_type \in ContentTypes, elapsed \in ElapsedTimes :
          Serve([endpoint |-> "extract_file", item |-> item, size |-> size,
                 content_type |-> content_type, elapsed |-> elapsed],
                extract_measurements_from_file(item, size, content_type, elapsed))
    /\ UNCHANGED <<st_tasks, st_running>>
    /\ UNCHANGED <<serviceVars, scoreVars, validationVars, recordVars>>

Batch ==
    /\ api_request = NoApiRequest
    /\ \E images \in Batches, elapsed \in ElapsedTimes :
          Serve([endpoint |-> "batch", images |-> images, elapsed |-> elapsed],
                batch_extract_measurements(images, elapsed))
    /\ UNCHANGED <<st_tasks, st_running>>
    /\ UNCHANGED <<serviceVars, scoreVars, validationVars, recordVars>>

(***************************************************************************)
(* The Measurement table of measurements/models.py and the operations that *)
(* write it: MeasurementCreateSerializer.create, create_measurement_from_- *)
(* ai_result and MeasurementDetailView.perform_destroy.  All rows belong   *)
(* to one designer; a row's id is its place in measurement_rows.  Each     *)
(* statement is committed on its own (no transaction is opened anywhere in *)
(* the code), and a statement the database refuses raises IntegrityError   *)
(* and leaves the table as it was.                                         *)
(***************************************************************************)
Customers == {"c1", "c2"}

NewRow(customer, measurement_type) ==
    [customer |-> customer, is_active |-> TRUE, measurement_type |-> measurement_type]

\* Meta.unique_together = ['customer', 'designer', 'is_active']
unique_together(rows) ==
    \A i, j \in 1..Len(rows) :
        (i # j /\ rows[i].customer = rows[j].customer)
            => rows[i].is_active # rows[j].is_active

\* one statement: the table after it, or IntegrityError and the table as it was
Execute(rows, after) ==
    IF unique_together(after) THEN [rows |-> after, raised |-> FALSE]
    ELSE [rows |-> rows, raised |-> TRUE]

\* Measurement.objects.filter(customer=..., designer=..., is_active=True)
\*     .update(is_active=False)
Deactivate(rows, customer) ==
    Execute(rows,
            [k \in 1..Len(rows) |->
                IF rows[k].customer = customer /\ rows[k].is_active
                THEN [rows[k] EXCEPT !.is_active = FALSE]
                ELSE rows[k]])

\* the INSERT of a new record
Insert(rows, row) == Execute(rows, Append(rows, row))

Outcome(rows, created, raised) == [rows |-> rows, created |-> created, raised |-> raised]

\* MeasurementCreateSerializer.create: an IntegrityError leaves the method
create(rows, customer) ==
    LET deactivated == Deactivate(rows, customer)
    IN  IF deactivated.raised THEN Outcome(rows, FALSE, TRUE)
        ELSE LET inserted == Insert(deactivated.rows, NewRow(customer, "manual"))
             IN  Outcome(inserted.rows, ~inserted.raised, inserted.raised)

measurement_mapping ==
    [height |-> "height", shoulder_width |-> "shoulder_width",
     arm_length |-> "arm_length", waist |-> "waist", hips |-> "hips",
     inseam |-> "inseam", bust |-> "bust", chest |-> "chest",
     torso_length |-> "None"]

\* the measurements of the result that are set on the new record
Applied(measurements_data) ==
    SelectSeq(measurements_data,
              LAMBDA m : /\ QLe(Q(5, 10), m.confidence)
                         /\ m.name \in DOMAIN measurement_mapping
                         /\ measurement_mapping[m.name] # "None")

\* create_measurement_from_ai_result; `created' tells that a measurement is
\* returned, `raised' that the except clause was entered.  formattable:
\* processing_time is a number, so that the notes can be formatted.
create_measurement_from_ai_result(rows, ai_result, customer) ==
    IF ~ai_result.success THEN Outcome(rows, FALSE, FALSE)
    ELSE IF ai_result.measurements = <<>> THEN Outcome(rows, FALSE, FALSE)
    ELSE LET deactivated == Deactivate(rows, customer)
         IN  IF deactivated.raised THEN Outcome(rows, FALSE, TRUE)
             ELSE IF Len(Applied(ai_result.measurements)) = 0
             THEN Outcome(deactivated.rows, FALSE, FALSE)
             ELSE IF ~ai_result.formattable
             THEN Outcome(deactivated.rows, FALSE, TRUE)
             ELSE LET inserted == Insert(deactivated.rows, NewRow(customer, "ai_generated"))
                  IN  Outcome(inserted.rows, ~inserted.raised, inserted.raised)

\* MeasurementDetailView.perform_destroy for a designer: instance.save()
perform_destroy(rows, id) ==
    LET saved == Execute(rows, [rows EXCEPT ![id].is_active = FALSE])
    IN  Outcome(saved.rows, FALSE, saved.raised)

AiMeasurement(name, confidence) == [name |-> name, confidence |-> confidence]

AiResult(success, measurements, formattable) ==
    [success |-> success, measurements |-> measurements, formattable |-> formattable]

\* results of the AI service as the integration may be handed them: failed,
\* empty, below the confidence threshold, not mapped to a field, at the
\* threshold, a usual result, and a usual result whose processing_time is
\* null
AiResults ==
    {AiResult(FALSE, <<AiMeasurement("height", Q(9, 10))>>, TRUE),
     AiResult(TRUE, <<>>, TRUE),
     AiResult(TRUE, <<AiMeasurement("height", Q(4, 10))>>, TRUE),
     AiResult(TRUE, <<AiMeasurement("torso_length", Q(8, 10))>>, TRUE),
     AiResult(TRUE, <<AiMeasurement("height", Q(5, 10))>>, TRUE),
     AiResult(TRUE, <<AiMeasurement("height", Q(9, 10)),
                      AiMeasurement("waist", Q(6, 10))>>, TRUE),
     AiResult(TRUE, <<AiMeasurement("height", Q(9, 10)),
                      AiMeasurement("waist", Q(6, 10))>>, FALSE)}

NoAiResult == AiResult(FALSE, <<>>, TRUE)

Operation(op, customer, id, ai_result, outcome) ==
    [op |-> op, customer |-> customer, id |-> id, ai_result |-> ai_result,
     created |-> outcome.created, raised |-> outcome.raised,
     before |-> measurement_rows]

RecordsInit ==
    /\ measurement_rows = <<>>
    /\ last_operation =
          [op |-> "none", customer |-> "c1", id |-> 0, ai_result |-> NoAiResult,
           created |-> FALSE, raised |-> FALSE, before |-> <<>>]

\* POST of a manual measurement by the designer
CreateManual ==
    /\ \E customer \in Customers :
          LET outcome == create(measurement_rows, customer)
          IN  /\ measurement_rows' = outcome.rows
              /\ last_operation' = Operation("create", customer, 0, NoAiResult, outcome)
    /\ UNCHANGED <<serviceVars, scoreVars, validationVars, statsVars, apiVars>>

\* a measurement created from a result of the AI service
CreateFromAi ==
    /\ \E customer \in Customers, ai_result \in AiResults :
          LET outcome ==
                  create_measurement_from_ai_result(measurement_rows, ai_result, customer)
          IN  /\ measurement_rows' = outcome.rows
              /\ last_operation' = Operation("create_ai", customer, 0, ai_result, outcome)
    /\ UNCHANGED <<serviceVars, scoreVars, validationVars, statsVars, apiVars>>

\* DELETE of a measurement by the designer
Destroy ==
    /\ \E id \in 1..Len(measurement_rows) :
          LET outcome == perform_destroy(measurement_rows, id)
          IN  /\ measurement_rows' = outcome.rows
              /\ last_operation' =
                    Operation("destroy", measurement_rows[id].customer, id,
                              NoAiResult, outcome)
    /\ UNCHANGED <<serviceVars, scoreVars, validationVars, statsVars, apiVars>>

Init == ServiceInit /\ ScoreInit /\ ValidateInit /\ StatsInit /\ ApiInit /\ RecordsInit

Next == Submit \/ ProcessImage \/ Return

Spec == Init /\ [][Next]_vars

NextScore == AddMeasurement \/ Score

SpecScore == Init /\ [][NextScore]_vars

NextValidate == SetField \/ Validate

SpecValidate == Init /\ [][NextValidate]_vars

NextStats ==
    Arrive \/ ResumeRead \/ LoadTotal \/ StoreTotal \/ LoadCount \/ StoreCount
        \/ UpdateAverage

SpecStats == Init /\ [][NextStats]_vars

NextApi == EarlierUpdate \/ Extract \/ ExtractFile \/ Batch

SpecApi == Init /\ [][NextApi]_vars

NextRecords == CreateManual \/ CreateFromAi \/ Destroy

SpecRecords == Init /\ [][NextRecords]_vars

(***************************************************************************)
(* Properties.  The quantities below are read off the request and the      *)
(* response, not off the operators above.                                  *)
(***************************************************************************)
Done == phase = "done"

Img == request.image_data

\* the pose estimator returned a landmark list and no helper raised
Detected ==
    /\ Img.decodable /\ ~Img.pose_raises /\ Img.pose_landmarks.some
    /\ Img.raises_in = "none"

NumLandmarks == Cardinality(DOMAIN Img.pose_landmarks.landmark)

Has(i) == i \in DOMAIN Img.pose_landmarks.landmark

PixelX(i) == QMul(Img.pose_landmarks.landmark[i].x, QInt(Img.width))

PixelY(i) == QMul(Img.pose_landmarks.landmark[i].y, QInt(Img.height))

\* squared plane distance in pixels between landmarks i and j
PlaneSq(i, j) ==
    LET dx == QSub(PixelX(i), PixelX(j))
        dy == QSub(PixelY(i), PixelY(j))
    IN  QAdd(QMul(dx, dx), QMul(dy, dy))

PlaneDistance(i, j) == Sqrt(PlaneSq(i, j))

HeadToAnklePositive == Has(0) /\ Has(27) /\ PlaneSq(0, 27).n > 0

HeadToAnkleZero == Has(0) /\ Has(27) /\ PlaneSq(0, 27).n = 0

calibration == response.metadata.calibration

\* the measurement of the response with the given name (it must exist)
Named(name) ==
    response.measurements[CHOOSE k \in 1..Len(response.measurements) :
                              response.measurements[k].name = name]

HasNamed(name) ==
    \E k \in 1..Len(response.measurements) : response.measurements[k].name = name

\* the landmark pair the catalog table of the specification gives a name
PairOf(name) ==
    CASE name = "height" -> <<0, 27>>
      [] name = "shoulder_width" -> <<11, 12>>
      [] name = "arm_length" -> <<11, 15>>
      [] name = "waist" -> <<23, 24>>
      [] name = "hips" -> <<23, 24>>
      [] name = "inseam" -> <<23, 27>>
      [] name = "torso_length" -> <<11, 23>>

CatalogNames ==
    <<"height", "shoulder_width", "arm_length", "waist", "hips", "inseam", "torso_length">>

\* C1: when pose estimation reports no landmarks, process_image returns
\* success=false, no measurements, pose confidence 0.0, accuracy 0.0 and
\* exactly the three fixed recommendations in order, and neither landmark
\* extraction, calibration nor measurement computation was attempted.
C1_NoDetectionResult ==
    (Done /\ Img.decodable /\ ~Img.pose_raises /\ ~Img.pose_landmarks.some) =>
        /\ response.success = FALSE
        /\ response.measurements = <<>>
        /\ response.pose_detection_confidence = QInt(0)
        /\ response.overall_accuracy = QInt(0)
        /\ response.recommendations =
              <<"Ensure the person is fully visible in the image",
                "Use good lighting conditions",
                "Make sure the person is standing straight">>
        /\ ~response.metadata.calibration.some
        /\ \A j \in 1..Len(calls) :
              calls[j] \notin {"_extract_landmarks", "_calculate_measurements",
                               "_calculate_pose_confidence", "_estimate_accuracy"}

C1_Witness ==
    /\ Done /\ Img.decodable /\ ~Img.pose_raises /\ ~Img.pose_landmarks.some
    /\ Len(response.recommendations) = 3
    /\ response.image_width = 640
    /\ request.reference_height.some

\* C2 (as claimed): when nose and left_ankle coincide, the result carries a
\* calibration failure in its errors and is not reported as success=true.
C2_DegenerateCalibrationFails ==
    (Done /\ Detected /\ HeadToAnkleZero) =>
        /\ response.success = FALSE
        /\ Len(response.errors) > 0

\* C3: whenever head_to_ankle > 0, on either calibration path, the
\* calibration has reference_object_pixels = dist(nose, left_ankle) and
\* pixel_to_cm_ratio * reference_object_pixels = reference_object_real_size.
C3_RatioTimesPixelsIsRealSize ==
    (Done /\ Detected /\ HeadToAnklePositive) =>
        /\ calibration.some
        /\ calibration.reference_object_pixels = PlaneDistance(0, 27)
        /\ FMul(calibration.pixel_to_cm_ratio, calibration.reference_object_pixels)
              = FromQ(calibration.reference_object_real_size)

C3_Witness ==
    /\ Done /\ Detected /\ HeadToAnklePositive
    /\ Truthy(request.reference_height)
    /\ calibration.some
    /\ calibration.pixel_to_cm_ratio # FromQ(QInt(1))
    /\ calibration.reference_object_pixels # FromQ(QInt(340))

\* C4 (as claimed): a landmark list that does not hold exactly 33 points is
\* rejected before calibration: no calibration, no measurement, and an
\* error instead of success=true.
C4_WrongCountRejected ==
    (Done /\ Detected /\ NumLandmarks # 33) =>
        /\ response.success = FALSE
        /\ Len(response.errors) > 0
        /\ response.measurements = <<>>
        /\ ~calibration.some

\* C5: every response of process_image (success, no detection, error) has
\* overall_accuracy in [0, 1]; all visibilities of the inputs are in [0, 1].
C5_AccuracyInUnitInterval ==
    Done =>
        /\ QLe(QInt(0), response.overall_accuracy)
        /\ QLe(response.overall_accuracy, QInt(1))

C5_Witness ==
    /\ Done /\ response.success
    /\ response.overall_accuracy = Q(86, 100)
    /\ response.pose_detection_confidence = QInt(1)

\* sum of the confidences of ms[1..k]
RECURSIVE ConfidenceSum(_, _)
ConfidenceSum(ms, k) ==
    IF k = 0 THEN QInt(0) ELSE QAdd(ConfidenceSum(ms, k - 1), ms[k].confidence)

\* C6: for a non-empty measurement list and any pose confidence,
\* _estimate_accuracy is min(1.0, 0.7 * mean confidence + 0.3 * pose
\* confidence).
C6_AccuracyFormula ==
    (score_phase = "scored" /\ Len(score_input.measurements) > 0) =>
        LET ms == score_input.measurements
            mean == QDiv(ConfidenceSum(ms, Len(ms)), QInt(Len(ms)))
            blend == QAdd(QMul(Q(7, 10), mean), QMul(Q(3, 10), score_input.pose_confidence))
        IN  score_output.overall_accuracy =
                (IF QLt(QInt(1), blend) THEN QInt(1) ELSE blend)

C6_Witness ==
    /\ score_phase = "scored"
    /\ Len(score_input.measurements) = 3
    /\ score_input.pose_confidence = Q(69, 100)
    /\ \E j, k \in 1..3 :
          score_input.measurements[j].confidence # score_input.measurements[k].confidence
    /\ QLt(score_output.overall_accuracy, QInt(1))

\* C7: a 33-point landmark list with head_to_ankle > 0 yields exactly the
\* seven catalog measurements in catalog order with the fixed confidences
\* and method tags, whatever the positions and the calibration path.
C7_FixedCatalog ==
    (Done /\ Detected /\ NumLandmarks = 33 /\ HeadToAnklePositive) =>
        /\ [k \in 1..Len(response.measurements) |-> response.measurements[k].name]
              = CatalogNames
        /\ [k \in 1..Len(response.measurements) |-> response.measurements[k].confidence]
              = <<Q(90, 100), Q(85, 100), Q(80, 100), Q(60, 100),
                  Q(80, 100), Q(85, 100), Q(80, 100)>>
        /\ [k \in 1..Len(response.measurements) |-> response.measurements[k].method]
              = <<"nose_to_ankle_distance", "shoulder_to_shoulder_distance",
                  "shoulder_to_wrist_distance", "hip_width_estimation",
                  "hip_to_hip_distance", "hip_to_ankle_distance",
                  "shoulder_to_hip_distance">>

C7_Witness ==
    /\ Done /\ Detected /\ NumLandmarks = 33 /\ HeadToAnklePositive
    /\ Len(response.measurements) = 7
    /\ ~request.reference_height.some
    /\ PlaneSq(11, 12).n = 0

\* the measurements of the run when landmark i is reported at depth z
MeasurementsAtDepth(i, z) ==
    LET moved == [Img.pose_landmarks EXCEPT !.landmark[i].z = z]
    IN  _calculate_measurements(_extract_landmarks(moved, Img.width, Img.height),
            Img.width, Img.height, request.reference_height).measurements

AltDepth == QInt(7)

\* C8 (as claimed): every measurement value is the plane distance of its
\* catalog landmark pair times the run's pixel_to_cm_ratio.
C8_EveryValueIsDistanceTimesRatio ==
    (Done /\ Detected) =>
        \A k \in 1..Len(response.measurements) :
            LET m == response.measurements[k]
                pair == PairOf(m.name)
            IN  m.value = FMul(PlaneDistance(pair[1], pair[2]), calibration.pixel_to_cm_ratio)

\* C8 (amended): every measurement value other than waist is the plane
\* distance (x, y only) of its catalog pair times the run's single
\* pixel_to_cm_ratio, and waist is 0.75 times that product for the hip
\* pair; shoulders at (150,140), (250,140) are 100 pixels apart and give
\* shoulder_width 50.0 at ratio 0.5; changing a landmark's z changes no
\* measurement.
C8_PlaneDistanceTimesRatio ==
    (Done /\ Detected) =>
        /\ \A k \in 1..Len(response.measurements) :
              LET m == response.measurements[k]
                  pair == PairOf(m.name)
                  scaled == FMul(PlaneDistance(pair[1], pair[2]),
                                 calibration.pixel_to_cm_ratio)
              IN  m.value = IF m.name = "waist" THEN FMul(FromQ(Q(3, 4)), scaled)
                            ELSE scaled
        /\ ( /\ HasNamed("shoulder_width")
             /\ <<PixelX(11), PixelY(11)>> = <<QInt(150), QInt(140)>>
             /\ <<PixelX(12), PixelY(12)>> = <<QInt(250), QInt(140)>>
             /\ calibration.pixel_to_cm_ratio = FromQ(Q(1, 2)) )
           => /\ PlaneDistance(11, 12) = FromQ(QInt(100))
              /\ Named("shoulder_width").value = FromQ(QInt(50))
        /\ \A i \in DOMAIN Img.pose_landmarks.landmark :
              MeasurementsAtDepth(i, AltDepth) = response.measurements

C8_Witness ==
    /\ Done /\ Detected
    /\ HasNamed("shoulder_width")
    /\ <<PixelX(11), PixelY(11)>> = <<QInt(150), QInt(140)>>
    /\ <<PixelX(12), PixelY(12)>> = <<QInt(250), QInt(140)>>
    /\ calibration.pixel_to_cm_ratio = FromQ(Q(1, 2))
    /\ Named("shoulder_width").value = FromQ(QInt(50))

\* C9: in every run that produces measurements, the waist value is 0.75
\* times the hips value of the run and waist has confidence 0.60; a hip
\* width of 100 pixels at ratio 1.0 gives waist 75.0.
C9_WaistIsThreeQuartersOfHips ==
    (Done /\ Detected /\ Len(response.measurements) > 0) =>
        /\ HasNamed("waist") /\ HasNamed("hips")
        /\ Named("waist").value = FMul(FromQ(Q(75, 100)), Named("hips").value)
        /\ Named("waist").confidence = Q(60, 100)
        /\ (PlaneDistance(23, 24) = FromQ(QInt(100))
               /\ calibration.pixel_to_cm_ratio = FromQ(QInt(1)))
           => Named("waist").value = FromQ(QInt(75))

C9_Witness ==
    /\ Done /\ Detected /\ Len(response.measurements) > 0
    /\ PlaneDistance(23, 24) = FromQ(QInt(100))
    /\ calibration.pixel_to_cm_ratio = FromQ(QInt(1))
    /\ Named("waist").value = FromQ(QInt(75))
    /\ Named("hips").value = FromQ(QInt(100))

\* C10 (as claimed): when a catalog measurement cannot be computed because
\* a landmark of its pair is missing, every catalog measurement whose pair
\* is present is still returned, later ones included.
C10_OtherMeasurementsStillReturned ==
    (Done /\ Detected) =>
        \A k \in 1..Len(CatalogNames) :
            (Has(PairOf(CatalogNames[k])[1]) /\ Has(PairOf(CatalogNames[k])[2]))
                => HasNamed(CatalogNames[k])

\* C11 (as claimed): the calibration path is selected by whether a
\* reference_height is supplied: every supplied reference_height gives
\* reference_real_size = reference_height, ratio = reference_height /
\* head_to_ankle and confidence 0.9; the default 170.0 with confidence 0.7
\* is used only when reference_height is absent.
C11_SuppliedHeightSelectsPath ==
    (Done /\ Detected /\ HeadToAnklePositive) =>
        /\ calibration.some
        /\ request.reference_height.some =>
              /\ calibration.reference_object_real_size = request.reference_height.v
              /\ calibration.pixel_to_cm_ratio =
                    FDiv(FromQ(request.reference_height.v), PlaneDistance(0, 27))
              /\ calibration.calibration_confidence = Q(9, 10)
        /\ ~request.reference_height.some =>
              /\ calibration.reference_object_real_size = QInt(170)
              /\ calibration.pixel_to_cm_ratio =
                    FDiv(FromQ(QInt(170)), PlaneDistance(0, 27))
              /\ calibration.calibration_confidence = Q(7, 10)

\* visibility of key landmark i of the request's image, 0 when the list is
\* too short to hold it
KeyVisibility(i) ==
    IF Has(i) THEN Img.pose_landmarks.landmark[i].visibility ELSE QInt(0)

KeyAvailable == {i \in {0, 11, 12, 23, 24, 25, 26, 27, 28} : Has(i)}

\* C12: pose confidence is the arithmetic mean of the visibility values of
\* the nine key landmark indices 0, 11, 12, 23, 24, 25, 26, 27, 28 (of
\* those of them the landmark list holds), 0.0 when none of them is
\* available, and within [0, 1] for visibilities in [0, 1].
C12_PoseConfidenceIsKeyMean ==
    (Done /\ Detected) =>
        LET total == QSum(<<KeyVisibility(0), KeyVisibility(11), KeyVisibility(12),
                            KeyVisibility(23), KeyVisibility(24), KeyVisibility(25),
                            KeyVisibility(26), KeyVisibility(27), KeyVisibility(28)>>)
        IN  /\ response.pose_detection_confidence =
                  (IF KeyAvailable = {} THEN QInt(0)
                   ELSE QDiv(total, QInt(Cardinality(KeyAvailable))))
            /\ NumLandmarks >= 29 =>
                  response.pose_detection_confidence = QDiv(total, QInt(9))
            /\ QLe(QInt(0), response.pose_detection_confidence)
            /\ QLe(response.pose_detection_confidence, QInt(1))

C12_Witness ==
    /\ Done /\ Detected /\ NumLandmarks = 33
    /\ \E i, j \in KeyAvailable : KeyVisibility(i) # KeyVisibility(j)
    /\ response.pose_detection_confidence = Q(4, 9)

\* the key landmarks are only partly available, or not at all
C12_WitnessPartial ==
    /\ Done /\ Detected /\ Cardinality(KeyAvailable) = 3
    /\ response.pose_detection_confidence = Q(1, 4)

Scored == score_phase = "scored"

Recs == score_output.recommendations

Recommends(advice) == \E k \in 1..Len(Recs) : Recs[k] = advice

\* the advisory comes somewhere before the other in the list
Precedes(first, second) ==
    \E j, k \in 1..Len(Recs) : j < k /\ Recs[j] = first /\ Recs[k] = second

\* C13: 'improve lighting' and 'stand straight facing camera' are present
\* iff pose_confidence < 0.7 and 'retake photo' iff pose_confidence < 0.5;
\* 'retake photo' never appears without the other two preceding it, and at
\* exactly 0.7 or 0.5 the respective advisory is absent.
C13_PoseAdvisories ==
    Scored =>
        /\ Recommends(RecLighting) <=> QLt(score_input.pose_confidence, Q(7, 10))
        /\ Recommends(RecStraight) <=> QLt(score_input.pose_confidence, Q(7, 10))
        /\ Recommends(RecRetake) <=> QLt(score_input.pose_confidence, Q(5, 10))
        /\ Recommends(RecRetake) =>
              /\ Precedes(RecLighting, RecRetake)
              /\ Precedes(RecStraight, RecRetake)
        /\ score_input.pose_confidence = Q(7, 10) =>
              ~Recommends(RecLighting) /\ ~Recommends(RecStraight)
        /\ score_input.pose_confidence = Q(5, 10) => ~Recommends(RecRetake)

C13_Witness ==
    /\ Scored
    /\ score_input.pose_confidence = Q(5, 10)
    /\ Recommends(RecLighting) /\ Recommends(RecStraight) /\ ~Recommends(RecRetake)

C13_WitnessRetake ==
    /\ Scored
    /\ score_input.pose_confidence = Q(49, 100)
    /\ Recommends(RecRetake)

\* C14: 'verify measurements manually' is present iff at least one
\* measurement has confidence < 0.7, and 'ensure full body visible' is
\* present iff fewer than 5 measurements were produced, zero included.
C14_MeasurementAdvisories ==
    Scored =>
        /\ Recommends(RecVerify) <=>
              \E k \in 1..Len(score_input.measurements) :
                  QLt(score_input.measurements[k].confidence, Q(7, 10))
        /\ Recommends(RecFullBody) <=> Len(score_input.measurements) < 5
        /\ Len(score_input.measurements) = 0 => Recommends(RecFullBody)

C14_Witness ==
    /\ Scored
    /\ Len(score_input.measurements) = 5
    /\ \A k \in 1..5 : score_input.measurements[k].confidence = Q(7, 10)
    /\ ~Recommends(RecVerify) /\ ~Recommends(RecFullBody)

C14_WitnessBoth ==
    /\ Scored
    /\ Len(score_input.measurements) = 4
    /\ Recommends(RecVerify) /\ Recommends(RecFullBody)

\* the seven advisories in their fixed order
AdvisoryOrder ==
    <<"Improve lighting conditions for better pose detection",
      "Ensure the person is standing straight and facing the camera",
      "Consider retaking the photo with the person more clearly visible",
      "Some measurements have lower confidence - consider manual verification",
      "Limited measurements detected - ensure full body is visible in the image",
      "For best results, use a photo with the person standing against a plain background",
      "Ensure the person is wearing fitted clothing for more accurate measurements">>

\* C15: for every input the recommendation list ends with the two closing
\* advisories (plain background, then fitted clothing), holds no advisory
\* twice, and lists the advisories present in the fixed relative order:
\* improve lighting, stand straight, retake photo, verify manually, ensure
\* full body visible, plain background, fitted clothing.
C15_OrderedWithoutRepeats ==
    Scored =>
        /\ Len(Recs) >= 2
        /\ Recs[Len(Recs) - 1] = AdvisoryOrder[6]
        /\ Recs[Len(Recs)] = AdvisoryOrder[7]
        /\ \A k \in 1..Len(Recs) : \E a \in 1..7 : Recs[k] = AdvisoryOrder[a]
        /\ \A j, k \in 1..Len(Recs) : j # k => Recs[j] # Recs[k]
        /\ \A j, k \in 1..Len(Recs) : \A a, b \in 1..7 :
              (j < k /\ Recs[j] = AdvisoryOrder[a] /\ Recs[k] = AdvisoryOrder[b]) => a < b

C15_Witness ==
    /\ Scored
    /\ Recs = AdvisoryOrder
    /\ Len(score_input.measurements) = 2

Validated == val_phase = "validated"

\* the manual row the call compares with
Reference == FirstManual(val_store, val_measurement)

Compares == Validated /\ val_db_up /\ Reference.some

\* the catalog fields both rows hold
InBoth ==
    {f \in {"bust", "waist", "hips", "chest", "shoulder_width", "arm_length",
            "height", "inseam"} :
        val_measurement[f].some /\ Reference.v[f].some}

\* |a - b| / b * 100 for b > 0, else 0
PercentageOf(a, b) ==
    IF b.n > 0
    THEN QDiv(QMul([n |-> Abs(QSub(a, b).n), d |-> QSub(a, b).d], QInt(100)), b)
    ELSE QInt(0)

\* the percentage difference field f adds to the total when it is compared
Contribution(f) ==
    IF f \in InBoth THEN PercentageOf(val_measurement[f].v, Reference.v[f].v)
    ELSE QInt(0)

TotalContribution ==
    QSum(<<Contribution("bust"), Contribution("waist"), Contribution("hips"),
           Contribution("chest"), Contribution("shoulder_width"),
           Contribution("arm_length"), Contribution("height"), Contribution("inseam")>>)

\* C16: validation compares exactly the fields of {bust, waist, hips, chest,
\* shoulder_width, arm_length, height, inseam} that are non-absent in both
\* rows: compared_fields is their number, comparisons has exactly their
\* keys, and a field absent in either row adds nothing to the totals.
C16_ComparesFieldsInBoth ==
    (Compares /\ InBoth # {}) =>
        /\ val_result.validation_available
        /\ val_result.compared_fields = Cardinality(InBoth)
        /\ DOMAIN val_result.comparisons = InBoth
        /\ val_result.summary.total_fields_compared = Cardinality(InBoth)
        /\ QMul(val_result.average_discrepancy_percentage, QInt(Cardinality(InBoth)))
              = TotalContribution
        /\ val_result.acceptable_measurements <= Cardinality(InBoth)

C16_Witness ==
    /\ Compares
    /\ Cardinality(InBoth) = 5
    /\ "inseam" \in InBoth /\ "height" \in InBoth
    /\ val_measurement["neck"].some /\ Reference.v["neck"].some
    /\ val_measurement["bust"].some /\ ~Reference.v["bust"].some
    /\ val_result.compared_fields = 5

AiValue(f) == val_measurement[f].v

ManualValue(f) == Reference.v[f].v

\* C17: for each compared field with AI value a and reference value b,
\* percentage_difference = |a - b| / b * 100 when b > 0 and 0 otherwise,
\* and the field is acceptable iff percentage_difference <= 10, boundary
\* included; ai=100 vs reference=90 is not acceptable, ai=95 vs
\* reference=90 is, and a field with reference 0 is acceptable whatever the
\* AI value.
C17_PercentageAndTolerance ==
    (Compares /\ InBoth # {}) =>
        \A f \in InBoth :
            LET comp == val_result.comparisons[f]
            IN  /\ comp.ai_value = AiValue(f) /\ comp.manual_value = ManualValue(f)
                /\ comp.percentage_difference = PercentageOf(AiValue(f), ManualValue(f))
                /\ comp.acceptable <=> QLe(comp.percentage_difference, QInt(10))
                /\ (AiValue(f) = QInt(100) /\ ManualValue(f) = QInt(90)) =>
                      comp.percentage_difference = Q(100, 9) /\ ~comp.acceptable
                /\ (AiValue(f) = QInt(95) /\ ManualValue(f) = QInt(90)) =>
                      comp.percentage_difference = Q(50, 9) /\ comp.acceptable
                /\ ManualValue(f) = QInt(0) =>
                      comp.percentage_difference = QInt(0) /\ comp.acceptable

C17_Witness ==
    /\ Compares /\ InBoth # {}
    /\ \E f, g \in InBoth :
          /\ AiValue(f) = QInt(99) /\ ManualValue(f) = QInt(90)
          /\ val_result.comparisons[f].percentage_difference = QInt(10)
          /\ val_result.comparisons[f].acceptable
          /\ AiValue(g) = QInt(100) /\ ManualValue(g) = QInt(90)
          /\ ~val_result.comparisons[g].acceptable

C17_WitnessZeroReference ==
    /\ Compares /\ InBoth # {}
    /\ \E f \in InBoth :
          /\ AiValue(f) = QInt(50) /\ ManualValue(f) = QInt(0)
          /\ val_result.comparisons[f].acceptable

\* the comparison of the same two rows in exchanged roles
SwappedResult ==
    Summarise(CompareFrom(1, Reference.v, val_measurement, NoComparisons))

\* C18: exchanging the two rows leaves every field's absolute difference
\* unchanged, while the percentage difference always has the second
\* (manual) value as its denominator, so for different positive values
\* the swapped percentage differs (and the verdict can flip).
C18_SwapKeepsDifferenceNotPercentage ==
    (Compares /\ InBoth # {}) =>
        /\ DOMAIN SwappedResult.comparisons = DOMAIN val_result.comparisons
        /\ \A f \in InBoth :
              LET comp == val_result.comparisons[f]
                  swapped == SwappedResult.comparisons[f]
              IN  /\ swapped.difference = comp.difference
                  /\ ManualValue(f).n > 0 =>
                        QMul(comp.percentage_difference, ManualValue(f))
                            = QMul(comp.difference, QInt(100))
                  /\ AiValue(f).n > 0 =>
                        QMul(swapped.percentage_difference, AiValue(f))
                            = QMul(comp.difference, QInt(100))
                  /\ (AiValue(f).n > 0 /\ ManualValue(f).n > 0
                        /\ AiValue(f) # ManualValue(f)) =>
                        swapped.percentage_difference # comp.percentage_difference

\* the verdict of a field flips under the exchange
C18_Witness ==
    /\ Compares /\ InBoth # {}
    /\ \E f \in InBoth :
          /\ AiValue(f) = QInt(100) /\ ManualValue(f) = QInt(90)
          /\ ~val_result.comparisons[f].acceptable
          /\ SwappedResult.comparisons[f].acceptable
          /\ SwappedResult.comparisons[f].percentage_difference = QInt(10)

\* no row of the table is an active manual record of the customer other
\* than the AI row itself
NoReference ==
    \A k \in 1..Len(val_store) :
        ~ ( /\ val_store[k].customer = val_measurement.customer
            /\ val_store[k].measurement_type = "manual"
            /\ val_store[k].is_active
            /\ val_store[k].id # val_measurement.id )

\* C19: when no field is present in both rows, or no reference row exists
\* at all, validation returns validation_available=false as a non-error
\* 'unavailable' result: nothing is raised and nothing is divided by the
\* zero count (a division by zero would surface as an error result).
C19_NothingToCompareIsUnavailable ==
    (Validated /\ val_db_up /\ (NoReference \/ InBoth = {})) =>
        /\ val_result.validation_available = FALSE
        /\ DOMAIN val_result = {"validation_available", "message"}
        /\ val_result.message =
              (IF NoReference THEN "No manual measurements available for comparison"
               ELSE "No comparable measurements found")

C19_Witness ==
    /\ Validated /\ val_db_up /\ ~NoReference /\ InBoth = {}
    /\ \E f, g \in {"bust", "waist", "hips", "chest"} :
          val_measurement[f].some /\ Reference.v[g].some
    /\ val_result.message = "No comparable measurements found"

C19_WitnessNoReference ==
    /\ Validated /\ val_db_up /\ NoReference
    /\ Len(val_store) > 0
    /\ val_measurement["bust"].some

\* the compared fields whose percentage difference is within 10
WithinTolerance ==
    {f \in InBoth : QLe(PercentageOf(AiValue(f), ManualValue(f)), QInt(10))}

\* C20: when at least one field is compared, validation_passed is true iff
\* acceptable_measurements / compared_fields >= 0.7, boundary included
\* (2 of 3 does not pass), where acceptable_measurements counts exactly the
\* compared fields classified acceptable and never exceeds compared_fields.
C20_PassedAtSeventyPercent ==
    (Compares /\ InBoth # {}) =>
        /\ val_result.validation_passed <=>
              10 * val_result.acceptable_measurements >= 7 * val_result.compared_fields
        /\ val_result.acceptable_measurements = Cardinality(WithinTolerance)
        /\ val_result.acceptable_measurements =
              Cardinality({f \in DOMAIN val_result.comparisons :
                              val_result.comparisons[f].acceptable})
        /\ val_result.acceptable_measurements <= val_result.compared_fields
        /\ (val_result.acceptable_measurements = 2 /\ val_result.compared_fields = 3)
              => ~val_result.validation_passed

C20_Witness ==
    /\ Compares
    /\ val_result.validation_available
    /\ val_result.acceptable_measurements = 2 /\ val_result.compared_fields = 3
    /\ ~val_result.validation_passed

C20_WitnessPassed ==
    /\ Compares
    /\ val_result.validation_available
    /\ val_result.acceptable_measurements = 3 /\ val_result.compared_fields = 4
    /\ val_result.validation_passed

\* C21: when at least one field is compared, average_discrepancy_percentage
\* is the sum of the per-field percentage differences divided by
\* compared_fields, and accuracy_score = max(0, 100 - average_discrepancy)
\* / 100, which lies in [0, 1] also for average discrepancies above 100%.
C21_AccuracyScoreIsClamped ==
    (Compares /\ InBoth # {}) =>
        LET average == QDiv(TotalContribution, QInt(Cardinality(InBoth)))
        IN  /\ val_result.average_discrepancy_percentage = average
            /\ val_result.accuracy_score =
                  (IF QLt(QInt(100), average) THEN QInt(0)
                   ELSE QDiv(QSub(QInt(100), average), QInt(100)))
            /\ QLe(QInt(0), val_result.accuracy_score)
            /\ QLe(val_result.accuracy_score, QInt(1))

C21_Witness ==
    /\ Compares /\ InBoth # {}
    /\ QLt(QInt(100), val_result.average_discrepancy_percentage)
    /\ val_result.accuracy_score = QInt(0)

C21_WitnessInside ==
    /\ Compares /\ Cardinality(InBoth) >= 2
    /\ QLt(QInt(0), val_result.accuracy_score)
    /\ QLt(val_result.accuracy_score, QInt(1))
    /\ \E f, g \in InBoth :
          val_result.comparisons[f].percentage_difference
              # val_result.comparisons[g].percentage_difference

\* the requests whose update_stats call has returned
Completed == {t \in 1..MaxTasks : st_tasks[t].pc = "done"}

\* no update_stats call is under way
NoCallUnderWay == \A t \in 1..MaxTasks : st_tasks[t].pc \in {"idle", "await_read", "done"}

\* C22: under any interleaving of concurrently completing requests no
\* update is lost: once N update_stats calls have completed,
\* total_requests = N, successful_requests and failed_requests are the
\* numbers of calls with success=true and success=false, and
\* total_requests = successful_requests + failed_requests.
C22_NoLostUpdate ==
    NoCallUnderWay =>
        /\ processing_stats.total_requests = Cardinality(Completed)
        /\ processing_stats.successful_requests =
              Cardinality({t \in Completed : st_tasks[t].success})
        /\ processing_stats.failed_requests =
              Cardinality({t \in Completed : ~st_tasks[t].success})
        /\ processing_stats.total_requests =
              processing_stats.successful_requests + processing_stats.failed_requests

\* two requests completed, one of them after waiting for its file while
\* the other one went through
C22_Witness ==
    /\ Cardinality(Completed) = 2
    /\ processing_stats.total_requests = 2
    /\ processing_stats.successful_requests = 1
    /\ processing_stats.failed_requests = 1
    /\ processing_stats.average_processing_time = QInt(2)

\* the run met a failure: the image could not be decoded, pose estimation
\* raised, or a helper after it raised
RunFailed ==
    \/ ~Img.decodable
    \/ Img.pose_raises
    \/ Img.pose_landmarks.some /\ Img.raises_in # "none"

\* C23: process_image never raises to its caller: every failure inside it
\* (image decode failure, pose-estimation failure, an exception in
\* landmark extraction, scoring or recommendation generation) is returned
\* as a structured result with success=false, no measurements, zero pose
\* confidence and accuracy, and a non-empty errors list.
C23_FailuresBecomeResults ==
    Done =>
        /\ response.success \in BOOLEAN
        /\ RunFailed =>
              /\ response.success = FALSE
              /\ response.measurements = <<>>
              /\ response.pose_detection_confidence = QInt(0)
              /\ response.overall_accuracy = QInt(0)
              /\ Len(response.errors) > 0

C23_Witness ==
    /\ Done /\ RunFailed
    /\ Img.raises_in = "_generate_recommendations"
    /\ NumLandmarks = 33
    /\ Len(calls) = 7
    /\ response.success = FALSE

C23_WitnessDecode ==
    /\ Done /\ ~Img.decodable
    /\ response.errors = <<"Processing error: Failed to decode image">>

(***************************************************************************)
(* The endpoints.                                                          *)
(***************************************************************************)
Batched == api_request.endpoint = "batch"

Single == api_request.endpoint \in {"extract", "extract_file"}

\* the request was answered with a result whose success flag is set
Succeeded == api_response.status = 200 /\ api_response.body.success

SuccessfulResults ==
    Cardinality({k \in 1..Len(api_response.results) : api_response.results[k].success})

Grown(field) == processing_stats[field] - api_trace.before[field]

C25_EveryRequestCountedOnce ==
    /\ Single =>
          /\ Grown("total_requests") = 1
          /\ Grown("successful_requests") = (IF Succeeded THEN 1 ELSE 0)
          /\ Grown("failed_requests") = (IF Succeeded THEN 0 ELSE 1)
    /\ (Batched /\ api_response.status = 200) =>
          /\ Grown("total_requests") = Len(api_request.images)
          /\ Grown("successful_requests") = SuccessfulResults
          /\ Grown("failed_requests") = Len(api_request.images) - SuccessfulResults

\* a request refused with 413 after an earlier request was counted
C25_Witness ==
    /\ Single
    /\ api_response.status = 413
    /\ api_trace.before.total_requests > 0
    /\ Grown("total_requests") = 1
    /\ Grown("failed_requests") = 1

C25_WitnessUnexpected ==
    /\ Single
    /\ api_response.status = 500
    /\ Grown("failed_requests") = 1

C25_WitnessBadType ==
    /\ Single
    /\ api_response.status = 400
    /\ Grown("failed_requests") = 1

C25_WitnessSucceeded == Single /\ Succeeded /\ Grown("successful_requests") = 1

C25_WitnessFailedResult ==
    /\ Single
    /\ api_response.status = 200
    /\ ~api_response.body.success
    /\ Grown("failed_requests") = 1

C25_WitnessBatch ==
    /\ Batched
    /\ Grown("total_requests") = MAX_BATCH_SIZE
    /\ Grown("failed_requests") = 1

\* C26: a batch of more than 10 images is answered with 400, none of its
\* images is handed to process_image and the statistics are left as they
\* were; a batch of exactly 10 images is accepted.
C26_OversizeBatchRejected ==
    /\ (Batched /\ Len(api_request.images) > MAX_BATCH_SIZE) =>
          /\ api_response.status = 400
          /\ api_response.processed = <<>>
          /\ api_response.results = <<>>
          /\ processing_stats = api_trace.before
    /\ (Batched /\ Len(api_request.images) = MAX_BATCH_SIZE) =>
          /\ api_response.status = 200
          /\ Len(api_response.processed) = MAX_BATCH_SIZE

\* a batch of eleven refused after an earlier request was counted
C26_Witness ==
    /\ Batched
    /\ Len(api_request.images) = MAX_BATCH_SIZE + 1
    /\ api_response.status = 400
    /\ api_trace.before.total_requests > 0
    /\ processing_stats = api_trace.before

C26_WitnessTen ==
    /\ Batched
    /\ Len(api_request.images) = MAX_BATCH_SIZE
    /\ api_response.status = 200


(***************************************************************************)
(* Height and calibration.                                                 *)
(***************************************************************************)
\* C27 (as claimed): in a run with head_to_ankle > 0 the height that is
\* reported equals the reference_object_real_size of the calibration, and
\* that size is the supplied reference_height, or 170.0 when none is
\* supplied, whatever the landmark positions and the image dimensions.
C27_HeightIsReferenceSize ==
    (Done /\ Detected /\ HeadToAnklePositive /\ HasNamed("height")) =>
        /\ calibration.some
        /\ Named("height").value = FromQ(calibration.reference_object_real_size)
        /\ calibration.reference_object_real_size =
              (IF request.reference_height.some THEN request.reference_height.v
               ELSE QInt(REFERENCE_HEIGHT_CM))


(***************************************************************************)
(* Recommendations of a full run.                                          *)
(***************************************************************************)
FullRun == Done /\ Len(response.measurements) = Len(CatalogNames)

Advises(advice) ==
    \E k \in 1..Len(response.recommendations) : response.recommendations[k] = advice

\* C28: a run that produces all seven catalog entries recommends manual
\* verification and does not recommend making the full body visible,
\* whatever the pose confidence; a successful full run returns between 3
\* and 6 recommendations.
C28_FullRunAdvisories ==
    FullRun =>
        /\ Advises(RecVerify)
        /\ ~Advises(RecFullBody)
        /\ response.success =>
              /\ Len(response.recommendations) >= 3
              /\ Len(response.recommendations) <= 6

\* a full run with pose confidence 1: three recommendations
C28_Witness ==
    /\ FullRun /\ response.success
    /\ response.pose_detection_confidence = QInt(1)
    /\ response.recommendations = <<RecVerify, RecBackground, RecClothing>>

\* a full run with pose confidence below 0.5: six recommendations
C28_WitnessSix ==
    /\ FullRun /\ response.success
    /\ QLt(response.pose_detection_confidence, Q(5, 10))
    /\ Len(response.recommendations) = 6

\* a full run with pose confidence between 0.5 and 0.7
C28_WitnessFive ==
    /\ FullRun
    /\ QLe(Q(5, 10), response.pose_detection_confidence)
    /\ QLt(response.pose_detection_confidence, Q(7, 10))
    /\ Len(response.recommendations) = 5


(***************************************************************************)
(* The measurement records of a customer-designer pair.                    *)
(***************************************************************************)
\* the ids of the pair's rows, all or only the active ones
RowsOf(rows, customer) == {k \in 1..Len(rows) : rows[k].customer = customer}

ActiveOf(rows, customer) == {k \in RowsOf(rows, customer) : rows[k].is_active}

\* the last operation was a creation: a manual one, or one from an AI result
\* that has a measurement to apply and can be formatted
Creation ==
    \/ last_operation.op = "create"
    \/ /\ last_operation.op = "create_ai"
       /\ last_operation.ai_result.success
       /\ Len(Applied(last_operation.ai_result.measurements)) > 0
       /\ last_operation.ai_result.formattable

\* C29 (as claimed): after any sequence of creations and soft deletes every
\* creation succeeds: it adds one record, which is the only active record of
\* the pair, all earlier records of the pair are kept and are inactive, and
\* the records of other pairs are as they were.
C29_CreationLeavesNewestActive ==
    Creation =>
        LET before == last_operation.before
            newest == Len(measurement_rows)
        IN  /\ last_operation.created
            /\ ~last_operation.raised
            /\ newest = Len(before) + 1
            /\ measurement_rows[newest].customer = last_operation.customer
            /\ ActiveOf(measurement_rows, last_operation.customer) = {newest}
            /\ \A k \in 1..Len(before) :
                  IF before[k].customer = last_operation.customer
                  THEN measurement_rows[k] = [before[k] EXCEPT !.is_active = FALSE]
                  ELSE measurement_rows[k] = before[k]

\* C30 (as claimed): when create_measurement_from_ai_result returns no
\* measurement, the Measurement table is as it was before the call.
C30_FailedAiCreationChangesNothing ==
    (last_operation.op = "create_ai" /\ ~last_operation.created) =>
        measurement_rows = last_operation.before

====
